---- MODULE Spec2Model ----
(***************************************************************************)
(* A model of the lit-router-extended routing core: the route scorer and   *)
(* pattern compiler (scorer.js), and the Routes navigation controller      *)
(* (routes.js) with its promise-based navigation, its route table          *)
(* operations and its tree registration protocol.                          *)
(*                                                                         *)
(* Strings are sequences of one-character strings, so that split, slice,   *)
(* substring and the regular expressions are computed, not assumed.        *)
(* Asynchronous code is modelled with an explicit microtask queue: every   *)
(* await and every promise reaction is a job that runs in FIFO order.      *)
(***************************************************************************)
EXTENDS Integers, Sequences, FiniteSets, TLC

VARIABLES
    routes,          \* node -> the routes array (route descriptors in insertion order)
    fallback,        \* node -> the fallback descriptor or Undef
    sortedCache,     \* node -> the sortedRoutesCache entry of the node (Undef or the sorted copies)
    childRoutes,     \* node -> _childRoutes (sequence of nodes)
    parentRoutes,    \* node -> _parentRoutes (a node or 0)
    curPathname,     \* node -> _currentPathname
    curRoute,        \* node -> _currentRoute
    curParams,       \* node -> _currentParams
    curPassed,       \* node -> _currentPassedParams
    pendingNav,      \* node -> _pendingNavigation (0 for null, else the index of a navigation)
    navigationId,    \* node -> _navigationId
    onDisconnect,    \* node -> the node whose child set _onDisconnect removes this node from (0: not set)
    listening,       \* node -> the host has the routes-connected listener of this controller
    calls,           \* the invocations of _gotoInternal
    navs,            \* the invocations of _performNavigation, each with its promise
    muts,            \* the table mutation calls made by callers
    queue,           \* the microtask queue
    hostLog,         \* node -> what the host received: requestUpdate calls and dispatched events
    host,            \* node -> whether the host is connected, and how often it was (dis)connected
    applied,         \* node -> the mutation calls in the order they took effect on the table
    execs,           \* the calls of getPattern(route).exec made by callers, with their results
    window           \* the Router's view of the browser: location.pathname, the history entries pushed, _isDestroyed

vars == <<routes, fallback, sortedCache, childRoutes, parentRoutes, curPathname,
          curRoute, curParams, curPassed, pendingNav, navigationId, onDisconnect,
          listening, calls, navs, muts, queue, hostLog, host, applied, execs, window>>

-----------------------------------------------------------------------------
(* Strings *)

Undef == "undefined"

\* character codes, for the comparison of strings by JavaScript's > operator
CharCode(c) ==
    CASE c = "*" -> 42
      [] c = "/" -> 47
      [] c = "0" -> 48
      [] c = "1" -> 49
      [] c = "2" -> 50
      [] c = "4" -> 52
      [] c = ":" -> 58
      [] c = "?" -> 63
      [] c = "a" -> 97
      [] c = "b" -> 98
      [] c = "c" -> 99
      [] c = "d" -> 100
      [] c = "e" -> 101
      [] c = "i" -> 105
      [] c = "l" -> 108
      [] c = "n" -> 110
      [] c = "o" -> 111
      [] c = "p" -> 112
      [] c = "r" -> 114
      [] c = "s" -> 115
      [] c = "t" -> 116
      [] c = "u" -> 117
      [] c = "x" -> 120
      [] OTHER -> 200

IsDigit(c) == c \in {"0", "1", "2"}

RECURSIVE StrGreater(_, _)
\* a > b for two strings (lexicographic by character code)
StrGreater(a, b) ==
    IF Len(a) = 0 THEN FALSE
    ELSE IF Len(b) = 0 THEN TRUE
    ELSE IF CharCode(a[1]) # CharCode(b[1]) THEN CharCode(a[1]) > CharCode(b[1])
    ELSE StrGreater(Tail(a), Tail(b))

RECURSIVE SplitFrom(_, _, _)
SplitFrom(s, i, cur) ==
    IF i > Len(s) THEN (IF cur = <<>> THEN <<>> ELSE <<cur>>)
    ELSE IF s[i] = "/"
         THEN (IF cur = <<>> THEN <<>> ELSE <<cur>>) \o SplitFrom(s, i + 1, <<>>)
         ELSE SplitFrom(s, i + 1, Append(cur, s[i]))

\* path.split('/').filter(Boolean)
Segments(path) == SplitFrom(path, 1, <<>>)

RECURSIVE RemoveFirstQ(_)
\* str.replace('?', ''): removes the first question mark
RemoveFirstQ(s) ==
    IF s = <<>> THEN <<>>
    ELSE IF s[1] = "?" THEN Tail(s)
    ELSE <<s[1]>> \o RemoveFirstQ(Tail(s))

IsWildcardSeg(seg) == seg = <<"*">> \/ seg = <<"*", "*">>
StartsWithColon(seg) == seg[1] = ":"
EndsWithQ(seg) == seg[Len(seg)] = "?"

-----------------------------------------------------------------------------
(* scorer.js: scoreRoute *)

STATIC_SEGMENTS == 1000
DYNAMIC_SEGMENTS == 100
OPTIONAL_SEGMENTS == 10
WILDCARD_PENALTY == 0 - 50
DEPTH_BONUS == 1


IsStaticSeg(seg) == ~IsWildcardSeg(seg) /\ ~StartsWithColon(seg)
IsDynamicSeg(seg) == ~IsWildcardSeg(seg) /\ StartsWithColon(seg) /\ ~EndsWithQ(seg)
IsOptionalSeg(seg) == ~IsWildcardSeg(seg) /\ StartsWithColon(seg) /\ EndsWithQ(seg)

\* The score is whole + 0.1 * (specNum / specDen); the fraction is kept exact.
scoreRoute(path) ==
    IF path = <<>> \/ path = <<"/">>
    THEN [whole |-> STATIC_SEGMENTS, bonusNum |-> 0, bonusDen |-> 1,
          staticSegments |-> 1, dynamicSegments |-> 0, optionalSegments |-> 0,
          wildcards |-> 0, depth |-> 1, specNum |-> 1, specDen |-> 1]
    ELSE LET segs == Segments(path)
             st == Cardinality({i \in 1..Len(segs) : IsStaticSeg(segs[i])})
             dy == Cardinality({i \in 1..Len(segs) : IsDynamicSeg(segs[i])})
             op == Cardinality({i \in 1..Len(segs) : IsOptionalSeg(segs[i])})
             wi == Cardinality({i \in 1..Len(segs) : IsWildcardSeg(segs[i])})
             total == st + dy + op + wi
         IN [whole |-> st * STATIC_SEGMENTS + dy * DYNAMIC_SEGMENTS
                       + op * OPTIONAL_SEGMENTS + wi * WILDCARD_PENALTY
                       + Len(segs) * DEPTH_BONUS,
             bonusNum |-> IF total > 0 THEN st ELSE 0,
             bonusDen |-> IF total > 0 THEN total ELSE 1,
             staticSegments |-> st, dynamicSegments |-> dy, optionalSegments |-> op,
             wildcards |-> wi, depth |-> Len(segs),
             specNum |-> IF total > 0 THEN st ELSE 0,
             specDen |-> IF total > 0 THEN total ELSE 1]

\* sign of score(a) - score(b): the scores are (10*whole*den + num) / (10*den)
ScoreCmp(a, b) ==
    LET l == (10 * a.whole * a.bonusDen + a.bonusNum) * b.bonusDen
        r == (10 * b.whole * b.bonusDen + b.bonusNum) * a.bonusDen
    IN IF l > r THEN 1 ELSE IF l < r THEN 0 - 1 ELSE 0

\* sign of specificity(a) - specificity(b)
SpecCmp(a, b) ==
    LET l == a.specNum * b.specDen
        r == b.specNum * a.specDen
    IN IF l > r THEN 1 ELSE IF l < r THEN 0 - 1 ELSE 0

-----------------------------------------------------------------------------
(* scorer.js: compileRoute and matchPathAdvanced *)

\* The regular expression as a token list.  "oslash" is /? , "lit" a literal
\* character, "star" is (.*), "plus" is ([^/]+), "lazy" is ([^/]*?).
Lits(seg) == [i \in 1..Len(seg) |-> [t |-> "lit", c |-> seg[i]]]

SegTokens(seg) ==
    IF IsWildcardSeg(seg) THEN <<[t |-> "star", c |-> ""]>>
    ELSE IF StartsWithColon(seg)
         THEN (IF EndsWithQ(seg) THEN <<[t |-> "lazy", c |-> ""]>>
                                 ELSE <<[t |-> "plus", c |-> ""]>>)
         ELSE Lits(seg)

SegParams(seg) ==
    IF seg = <<"*">> THEN << <<"0">> >>
    ELSE IF seg = <<"*", "*">> THEN << <<"*", "*">> >>
    ELSE IF StartsWithColon(seg) THEN << RemoveFirstQ(Tail(seg)) >>
    ELSE <<>>

RECURSIVE CompileSegs(_, _)
CompileSegs(segs, i) ==
    IF i > Len(segs) THEN [regex |-> <<>>, params |-> <<>>]
    ELSE LET rest == CompileSegs(segs, i + 1)
             sep == IF i > 1 THEN <<[t |-> "lit", c |-> "/"]>> ELSE <<>>
         IN [regex |-> sep \o SegTokens(segs[i]) \o rest.regex,
             params |-> SegParams(segs[i]) \o rest.params]

\* a variant of compileRoute that lists the parameter names last to first
compileRouteNamesReversed(path) ==
    LET segs == Segments(path)
        body == CompileSegs(segs, 1)
    IN [regex |-> <<[t |-> "oslash", c |-> ""]>> \o body.regex \o <<[t |-> "oslash", c |-> ""]>>,
        params |-> [i \in 1..Len(body.params) |-> body.params[Len(body.params) + 1 - i]],
        segments |-> segs]

compileRoute(path) ==
    LET segs == Segments(path)
        body == CompileSegs(segs, 1)
    IN [regex |-> <<[t |-> "oslash", c |-> ""]>> \o body.regex \o <<[t |-> "oslash", c |-> ""]>>,
        params |-> body.params,
        segments |-> segs]

NoMatch == [ok |-> FALSE, caps |-> <<>>]

RECURSIVE SlashFree(_, _)
\* the length of the longest run of non-slash characters of s starting at p
SlashFree(s, p) ==
    IF p > Len(s) \/ s[p] = "/" THEN 0 ELSE 1 + SlashFree(s, p + 1)

RECURSIVE RegexFrom(_, _, _, _)
RECURSIVE TryLen(_, _, _, _, _, _, _)

\* a backtracking match of the tokens from k on against s from position p on,
\* anchored at the end of s; the captures of the first match in backtracking order
RegexFrom(toks, k, s, p) ==
    IF k > Len(toks) THEN (IF p = Len(s) + 1 THEN [ok |-> TRUE, caps |-> <<>>] ELSE NoMatch)
    ELSE LET tk == toks[k] IN
         CASE tk.t = "lit" ->
                IF p <= Len(s) /\ s[p] = tk.c THEN RegexFrom(toks, k + 1, s, p + 1) ELSE NoMatch
           [] tk.t = "oslash" ->
                LET with == IF p <= Len(s) /\ s[p] = "/"
                            THEN RegexFrom(toks, k + 1, s, p + 1) ELSE NoMatch
                IN IF with.ok THEN with ELSE RegexFrom(toks, k + 1, s, p)
           [] tk.t = "star" -> TryLen(toks, k, s, p, Len(s) - p + 1, 0 - 1, 0)
           [] tk.t = "plus" ->
                IF SlashFree(s, p) = 0 THEN NoMatch
                ELSE TryLen(toks, k, s, p, SlashFree(s, p), 0 - 1, 1)
           [] tk.t = "lazy" -> TryLen(toks, k, s, p, 0, 1, SlashFree(s, p))

\* try the capture lengths len, len+step, ... , last in this order
TryLen(toks, k, s, p, len, step, last) ==
    LET r == RegexFrom(toks, k + 1, s, p + len)
    IN IF r.ok THEN [ok |-> TRUE, caps |-> <<SubSeq(s, p, p + len - 1)>> \o r.caps]
       ELSE IF len = last THEN NoMatch
       ELSE TryLen(toks, k, s, p, len + step, step, last)

\* compiled.regex.exec(s)
RegexExec(compiled, s) == RegexFrom(compiled.regex, 1, s, 1)

\* compiled.regex.test(s)
RegexTest(compiled, s) == RegexExec(compiled, s).ok

\* pathname.endsWith('/') && pathname !== '/' ? pathname.slice(0, -1) : pathname
Normalize(pathname) ==
    IF Len(pathname) > 0 /\ pathname[Len(pathname)] = "/" /\ pathname # <<"/">>
    THEN SubSeq(pathname, 1, Len(pathname) - 1)
    ELSE pathname

IsNumericKey(name) == Len(name) > 0 /\ \A i \in 1..Len(name) : IsDigit(name[i])

\* the parameter names whose captures matchPathAdvanced stores
StoredParam(name) ==
    IsNumericKey(name) \/ (name # <<"*">> /\ name # <<"*", "*">>)

NoParams == [k \in {} |-> <<>>]

\* Null or the params object: later captures of the same name overwrite earlier ones
matchPathAdvanced(pathname, compiled) ==
    LET m == RegexExec(compiled, Normalize(pathname))
        names == compiled.params
        keys == {names[i] : i \in {j \in 1..Len(names) : StoredParam(names[j])}}
        lastIdx(key) == CHOOSE i \in 1..Len(names) :
                            /\ names[i] = key
                            /\ \A j \in 1..Len(names) : names[j] = key => j <= i
    IN IF ~m.ok THEN [matched |-> FALSE, params |-> NoParams]
       ELSE [matched |-> TRUE, params |-> [key \in keys |-> m.caps[lastIdx(key)]]]

-----------------------------------------------------------------------------
(* routes.js: values *)

\* an undefined pathname or tail group (distinct from every string)
UndefStr == <<Undef>>

\* an undefined route
NoRoute == [ref |-> 0, path |-> <<>>, enter |-> 0, leave |-> 0, render |-> 0]

\* A route descriptor.  ref is the identity of the object; enter, leave and
\* render are 0 when the property is absent, else the version of the callback.
Route(ref, path, enter, leave, render) ==
    [ref |-> ref, path |-> path, enter |-> enter, leave |-> leave, render |-> render]

\* {...route, _score, _scoreBreakdown, _specificity}: a new object with the
\* properties of route as they are now
SpreadCopy(route) == [route EXCEPT !.ref = 0 - route.ref]

FallbackRef == 0 - 100

\* {...this.fallback, path: '/*'}
FallbackCopy(fb) == [fb EXCEPT !.ref = FallbackRef, !.path = <<"/", "*">>]

\* getPattern(route).test({pathname}): compiled.regex.test(pathname)
PatternTest(route, pathname) == RegexTest(compileRoute(route.path), pathname)

\* getPattern(route).exec({pathname}), then (result && result.pathname.groups) || {}
PatternExecParams(route, pathname) ==
    matchPathAdvanced(pathname, compileRoute(route.path)).params

\* getPattern(route).exec({pathname}): null, or the groups of the match
PatternExec(route, pathname) == matchPathAdvanced(pathname, compileRoute(route.path))

HasDigit(key) == \E i \in 1..Len(key) : IsDigit(key[i])

getTailGroup(groups) ==
    LET cand == {k \in DOMAIN groups : HasDigit(k)}
    IN IF cand = {} THEN UndefStr
       ELSE groups[CHOOSE k \in cand : \A j \in cand : j = k \/ StrGreater(k, j)]

-----------------------------------------------------------------------------
(* The state as one record, so that an operation is a function of states *)

Pack ==
    [routes |-> routes, fallback |-> fallback, sortedCache |-> sortedCache,
     childRoutes |-> childRoutes, parentRoutes |-> parentRoutes,
     curPathname |-> curPathname, curRoute |-> curRoute, curParams |-> curParams,
     curPassed |-> curPassed, pendingNav |-> pendingNav, navigationId |-> navigationId,
     onDisconnect |-> onDisconnect, listening |-> listening, calls |-> calls,
     navs |-> navs, muts |-> muts, queue |-> queue, hostLog |-> hostLog,
     host |-> host, applied |-> applied, execs |-> execs, window |-> window,
     burst |-> FALSE]

Install(s) ==
    /\ routes' = s.routes
    /\ fallback' = s.fallback
    /\ sortedCache' = s.sortedCache
    /\ childRoutes' = s.childRoutes
    /\ parentRoutes' = s.parentRoutes
    /\ curPathname' = s.curPathname
    /\ curRoute' = s.curRoute
    /\ curParams' = s.curParams
    /\ curPassed' = s.curPassed
    /\ pendingNav' = s.pendingNav
    /\ navigationId' = s.navigationId
    /\ onDisconnect' = s.onDisconnect
    /\ listening' = s.listening
    /\ calls' = s.calls
    /\ navs' = s.navs
    /\ muts' = s.muts
    /\ queue' = s.queue
    /\ hostLog' = s.hostLog
    /\ host' = s.host
    /\ applied' = s.applied
    /\ execs' = s.execs
    /\ window' = s.window

-----------------------------------------------------------------------------
(* Promises and the microtask queue *)

\* Enqueue a microtask.  contig: the job was enqueued by the same synchronous
\* run as the job before it, so no other code can run between the two.
Enq(s, kind, id) ==
    [s EXCEPT !.queue = Append(@, [kind |-> kind, id |-> id, contig |-> s.burst]),
              !.burst = TRUE]

RECURSIVE EnqAll(_, _, _)
EnqAll(s, rs, i) ==
    IF i > Len(rs) THEN s ELSE EnqAll(Enq(s, rs[i].kind, rs[i].id), rs, i + 1)

\* The promise of navigation n settles: its reactions become jobs, in the
\* order in which they were registered.
Settle(s, n, st) ==
    EnqAll([s EXCEPT !.navs[n].pstate = st, !.navs[n].pc = "done",
                     !.navs[n].reactions = <<>>],
           s.navs[n].reactions, 1)

\* await / then on the promise of navigation n
React(s, n, kind, id) ==
    IF s.navs[n].pstate = "pending"
    THEN [s EXCEPT !.navs[n].reactions = Append(@, [kind |-> kind, id |-> id])]
    ELSE Enq(s, kind, id)

\* The record of what navigation n did (not program state): fx is every
\* effect, fxLate the effects made after a later navigation of the node started,
\* fxAfterCall the effects made after a later goto call on the node, fxOff the
\* effects made after the host of the node was disconnected.
AddFx(s, n, e) ==
    LET nv == s.navs[n] IN
    [s EXCEPT !.navs[n].fx = @ \cup {e},
              !.navs[n].fxLate = IF nv.superseded THEN @ \cup {e} ELSE @,
              !.navs[n].fxAfterCall = IF nv.overtaken THEN @ \cup {e} ELSE @,
              !.navs[n].fxOff = IF nv.abandoned THEN @ \cup {e} ELSE @]

\* the committed state of node x
CommittedOf(s, x) ==
    [pathname |-> s.curPathname[x], route |-> s.curRoute[x],
     params |-> s.curParams[x], passed |-> s.curPassed[x]]

\* Every unsettled navigation of x except n learns that the committed state
\* of x was written (a record, not program state).
Disturb(s, x, n) ==
    [s EXCEPT !.navs = [i \in 1..Len(s.navs) |->
        IF s.navs[i].node = x /\ i # n /\ s.navs[i].pstate = "pending"
        THEN [s.navs[i] EXCEPT !.undisturbed = FALSE] ELSE s.navs[i]]]

\* await guard(mergedParams): the guard is called and the navigation waits
\* for its result
InvokeGuard(s, n, which) ==
    AddFx([s EXCEPT !.navs[n].pc = which, !.navs[n].waiting = TRUE,
                    !.navs[n].res = "none"], n, which)

-----------------------------------------------------------------------------
(* routes.js: _getSortedRoutes and _getRoute *)

\* a variant of SortsBefore that ranks by the number of segments only
SortsBeforeByDepth(a, b) ==
    scoreRoute(a.path).depth > scoreRoute(b.path).depth

\* the comparator of the sort: negative when a sorts before b.  The third
\* key, this.routes.indexOf(a) - this.routes.indexOf(b), compares two copies
\* that are not in this.routes: -1 - -1 = 0.
SortsBefore(a, b) ==
    LET sa == scoreRoute(a.path)
        sb == scoreRoute(b.path)
    IN \/ ScoreCmp(sb, sa) < 0
       \/ ScoreCmp(sb, sa) = 0 /\ SpecCmp(sb, sa) < 0

RECURSIVE InsertSorted(_, _)
\* insert r behind every element that does not sort after it (a stable sort)
InsertSorted(sorted, r) ==
    IF sorted = <<>> THEN <<r>>
    ELSE IF SortsBefore(r, sorted[1]) THEN <<r>> \o sorted
    ELSE <<sorted[1]>> \o InsertSorted(Tail(sorted), r)

RECURSIVE StableSort(_, _)
StableSort(rs, i) ==
    IF i = 0 THEN <<>> ELSE InsertSorted(StableSort(rs, i - 1), rs[i])

NoCache == [valid |-> FALSE, sorted |-> <<>>]

\* sortedRoutesCache.set(this, {routesSnapshot, sortedRoutes})
cacheSorted(s, x, sorted) ==
    [s |-> [s EXCEPT !.sortedCache[x] = [valid |-> TRUE, sorted |-> sorted]],
     sorted |-> sorted]

\* the copies of the descriptors, with their scores
scoredRoutes(rs) == [i \in 1..Len(rs) |-> SpreadCopy(rs[i])]

\* the sorted copies, and the state with the cache entry written
getSortedRoutes(s, x) ==
    IF s.sortedCache[x].valid
    THEN [s |-> s, sorted |-> s.sortedCache[x].sorted]
    ELSE cacheSorted(s, x, StableSort(scoredRoutes(s.routes[x]), Len(s.routes[x])))

\* the indices of the sorted copies whose pattern tests true on pathname
Hits(sorted, pathname) == {i \in 1..Len(sorted) : PatternTest(sorted[i], pathname)}

\* sortedRoutes.find(...): the first of them, or undefined
FirstOf(sorted, hits) ==
    IF hits = {} THEN NoRoute ELSE sorted[CHOOSE i \in hits : \A j \in hits : i <= j]

\* a variant of OrFallback that prefers the fallback when there is one
OrFallbackFirst(matchedRoute, fb) ==
    IF fb.ref = 0 THEN matchedRoute ELSE FallbackCopy(fb)

\* lines 667-678: the matched route, or the fallback if there is one
OrFallback(matchedRoute, fb) ==
    IF matchedRoute.ref # 0 \/ fb.ref = 0 THEN matchedRoute ELSE FallbackCopy(fb)

\* a variant of findRoute that falls back to the best-ranked descriptor
findRouteOrFirst(g, x, pathname) ==
    [s |-> g.s,
     route |-> IF Hits(g.sorted, pathname) # {} \/ Len(g.sorted) = 0
               THEN FirstOf(g.sorted, Hits(g.sorted, pathname))
               ELSE g.sorted[1]]

\* _getRoute on the sorted copies g.sorted, in the state g.s
findRoute(g, x, pathname) ==
    [s |-> g.s,
     route |-> OrFallback(FirstOf(g.sorted, Hits(g.sorted, pathname)), g.s.fallback[x])]

\* lines 653-679
getRoute(s, x, pathname) == findRoute(getSortedRoutes(s, x), x, pathname)

-----------------------------------------------------------------------------
(* routes.js: _gotoInternal, _performNavigation, _checkChildrenCanLeave *)

RECURSIVE gotoInternal(_, _, _, _, _, _)

\* a variant of isCurrentNavigation that accepts every token issued so far
isCurrentNavigationAtLeast(s, n) == s.navigationId[s.navs[n].node] >= s.navs[n].id

\* line 262
isCurrentNavigation(s, n) == s.navigationId[s.navs[n].node] = s.navs[n].id

\* this.link(): the pathnames of the ancestors and of the node, concatenated
RECURSIVE link(_, _)
link(s, x) ==
    (IF s.parentRoutes[x] # 0 THEN link(s, s.parentRoutes[x]) ELSE <<>>)
        \o s.curPathname[x]

RECURSIVE forwardTail(_, _, _, _, _)

\* a variant of forwardTail that navigates the first registered child only
forwardTailToFirst(s, x, i, tail, passed) ==
    IF i > Len(s.childRoutes[x]) \/ i > 1 THEN s
    ELSE forwardTail(gotoInternal(s, s.childRoutes[x][i], tail, FALSE, passed, "tail"),
                     x, i + 1, tail, passed)

\* for (const childRoutes of this._childRoutes) childRoutes.goto(tailGroup, passedParams)
forwardTail(s, x, i, tail, passed) ==
    IF i > Len(s.childRoutes[x]) THEN s
    ELSE forwardTail(gotoInternal(s, s.childRoutes[x][i], tail, FALSE, passed, "tail"),
                     x, i + 1, tail, passed)

\* lines 352-357: the tail goes to every registered child
propagateTail(s, n) ==
    IF s.navs[n].tail # UndefStr
    THEN forwardTail(AddFx(s, n, "forward"), s.navs[n].node, 1,
                     s.navs[n].tail, s.navs[n].passed)
    ELSE s

\* the detail of the lit-router-location-changed event
LocationChanged(s, n, x) ==
    [nav |-> n, pathname |-> s.curPathname[x], fullPath |-> link(s, x),
     params |-> s.curParams[x], passedParams |-> s.curPassed[x],
     route |-> s.curRoute[x]]

\* lines 359-377: requestUpdate and the event, if the token is still the latest
updateHost(s, n) ==
    IF isCurrentNavigation(s, n)
    THEN AddFx(AddFx([s EXCEPT !.hostLog[s.navs[n].node].updates = @ + 1,
                               !.hostLog[s.navs[n].node].events =
                                   Append(@, LocationChanged(s, n, s.navs[n].node))],
                     n, "render"), n, "notify")
    ELSE s

\* lines 352-377: propagate the tail, then update the host if still current
propagate(s, n) == Settle(updateHost(propagateTail(s, n), n), n, "fulfilled")

\* a variant of afterEnter that updates the host before it commits
afterEnterNotifyFirst(s, n) ==
    LET nv == s.navs[n]
        x == nv.node
    IN IF ~isCurrentNavigation(s, n) THEN Settle(s, n, "fulfilled")
       ELSE Settle(propagateTail(
              AddFx([Disturb(updateHost(s, n), x, n) EXCEPT !.curRoute[x] = nv.route,
                              !.curParams[x] = nv.params,
                              !.curPassed[x] = nv.passed,
                              !.curPathname[x] =
                                  IF nv.tail = UndefStr THEN nv.pathname
                                  ELSE SubSeq(nv.pathname, 1, Len(nv.pathname) - Len(nv.tail))],
                    n, "commit"), n), n, "fulfilled")

\* lines 336-350: the token check after the enter guard, and the commit
afterEnter(s, n) ==
    LET nv == s.navs[n]
        x == nv.node
    IN IF ~isCurrentNavigation(s, n) THEN Settle(s, n, "fulfilled")
       ELSE propagate(
              AddFx([Disturb(s, x, n) EXCEPT !.curRoute[x] = nv.route,
                              !.curParams[x] = nv.params,
                              !.curPassed[x] = nv.passed,
                              !.curPathname[x] =
                                  IF nv.tail = UndefStr THEN nv.pathname
                                  ELSE SubSeq(nv.pathname, 1, Len(nv.pathname) - Len(nv.tail))],
                    n, "commit"), n)

\* a variant of callEnter that records the route before the guard is called
callEnterAfterRecording(s, n) ==
    LET nv == s.navs[n] IN
    IF nv.route.enter # 0
    THEN InvokeGuard([s EXCEPT !.curRoute[nv.node] = nv.route,
                               !.curParams[nv.node] = nv.params], n, "enter")
    ELSE afterEnter(s, n)

\* lines 326-334: the enter guard is called, if the route has one
callEnter(s, n) ==
    IF s.navs[n].route.enter # 0 THEN InvokeGuard(s, n, "enter")
    ELSE afterEnter(s, n)

\* lines 322-325: the params and the tail of the match
matched(s, n, route, params) ==
    [s EXCEPT !.navs[n].route = route,
              !.navs[n].params = params,
              !.navs[n].tail = getTailGroup(params),
              !.navs[n].resolved = IF route.ref = FallbackRef THEN "fallback" ELSE "route"]

\* lines 318-334: _getRoute returned g.route, in the state g.s
routeFound(g, n) ==
    IF g.route.ref = 0
    THEN Settle([g.s EXCEPT !.navs[n].resolved = "nomatch"], n, "rejected")
    ELSE callEnter(matched(g.s, n, g.route,
                           PatternExecParams(g.route, g.s.navs[n].pathname)), n)

\* a variant of afterChildren that looks an empty table up like any other
afterChildrenNoImplicit(s, n) ==
    IF ~isCurrentNavigation(s, n) THEN Settle(s, n, "fulfilled")
    ELSE routeFound(getRoute(s, s.navs[n].node, s.navs[n].pathname), n)

\* lines 301-325: the token check after the children's guards, and the matching
afterChildren(s, n) ==
    LET nv == s.navs[n]
        x == nv.node
    IN IF ~isCurrentNavigation(s, n) THEN Settle(s, n, "fulfilled")
       ELSE IF Len(s.routes[x]) = 0 /\ s.fallback[x].ref = 0
       THEN propagate(
              AddFx([Disturb(s, x, n) EXCEPT !.navs[n].tail = nv.pathname,
                              !.navs[n].resolved = "implicit",
                              !.curPathname[x] = <<>>,
                              !.curParams[x] = [k \in {<<"0">>} |-> nv.pathname],
                              !.curPassed[x] = nv.passed],
                    n, "commit"), n)
       ELSE routeFound(getRoute(s, x, nv.pathname), n)

\* one invocation of _checkChildrenCanLeave returns v (or throws): the
\* awaiting caller resumes in a later microtask
frameReturn(s, n, v) ==
    Enq([s EXCEPT !.navs[n].stack = SubSeq(@, 1, Len(@) - 1),
                  !.navs[n].ret = v,
                  !.navs[n].pc = "cclret"], "nav", n)

RECURSIVE checkChildrenCanLeave(_, _)

\* a variant of checkChildrenCanLeave that asks the descendants of a child
\* that has children of its own, and not that child
checkChildrenCanLeaveLeavesOnly(s, n) ==
    LET st == s.navs[n].stack
        top == st[Len(st)]
        kids == s.childRoutes[top.node]
    IN IF top.idx > Len(kids) THEN frameReturn(s, n, "true")
       ELSE LET ch == kids[top.idx]
                s1 == [s EXCEPT !.navs[n].stack[Len(st)].child = ch,
                                !.navs[n].pc = "children"]
            IN IF s.curRoute[ch].ref # 0 /\ s.curRoute[ch].leave # 0
                  /\ s.childRoutes[ch] = <<>>
               THEN InvokeGuard([s1 EXCEPT !.navs[n].consulted = Append(@, ch)], n, "childleave")
               ELSE checkChildrenCanLeave(
                      [s1 EXCEPT !.navs[n].stack = Append(@, [node |-> ch, idx |-> 1, child |-> 0])], n)

\* run the innermost invocation of _checkChildrenCanLeave from the head of
\* its loop to its next await or its return
checkChildrenCanLeave(s, n) ==
    LET st == s.navs[n].stack
        top == st[Len(st)]
        kids == s.childRoutes[top.node]
    IN IF top.idx > Len(kids) THEN frameReturn(s, n, "true")
       ELSE LET ch == kids[top.idx]
                s1 == [s EXCEPT !.navs[n].stack[Len(st)].child = ch,
                                !.navs[n].pc = "children"]
            IN IF s.curRoute[ch].ref # 0 /\ s.curRoute[ch].leave # 0
               THEN InvokeGuard([s1 EXCEPT !.navs[n].consulted = Append(@, ch)], n, "childleave")
               ELSE checkChildrenCanLeave(
                      [s1 EXCEPT !.navs[n].stack = Append(@, [node |-> ch, idx |-> 1, child |-> 0])], n)

\* lines 288-299: the token check after the leave guard, and the call of
\* _checkChildrenCanLeave
afterLeave(s, n) ==
    LET nv == s.navs[n] IN
    IF ~isCurrentNavigation(s, n) THEN Settle(s, n, "fulfilled")
    ELSE IF ~nv.skip
    THEN checkChildrenCanLeave(
           [s EXCEPT !.navs[n].stack = <<[node |-> nv.node, idx |-> 1, child |-> 0]>>], n)
    ELSE afterChildren(s, n)

\* a variant of leaveReturned that goes on when the guard returned false
leaveReturnedIgnoringVeto(s, n) ==
    IF s.navs[n].res = "throw" THEN Settle(s, n, "rejected") ELSE afterLeave(s, n)

\* lines 281-286: the leave guard has returned or thrown
leaveReturned(s, n) ==
    IF s.navs[n].res = "throw" THEN Settle(s, n, "rejected")
    ELSE IF s.navs[n].res = "false" THEN Settle(s, n, "fulfilled")
    ELSE afterLeave(s, n)

\* lines 329-334: the enter guard has returned or thrown
enterReturned(s, n) ==
    IF s.navs[n].res = "throw" THEN Settle(s, n, "rejected")
    ELSE IF s.navs[n].res = "false" THEN Settle(s, n, "fulfilled")
    ELSE afterEnter(s, n)

\* lines 273-286: the start of _performNavigation
performNavigation(s, n) ==
    LET nv == s.navs[n]
        cr == s.curRoute[nv.node]
    IN IF ~nv.skip /\ cr.ref # 0 /\ cr.leave # 0
       THEN InvokeGuard(s, n, "leave")
       ELSE afterLeave(s, n)

\* a microtask resumes navigation n behind the await it was suspended at
resumeNavigation(s, n) ==
    LET nv == s.navs[n]
        st == nv.stack
    IN CASE nv.pc = "leave" -> leaveReturned(s, n)
         [] nv.pc = "enter" -> enterReturned(s, n)
         [] nv.pc = "childleave" ->
              IF nv.res = "throw" THEN frameReturn(s, n, "throw")
              ELSE IF nv.res = "false" THEN frameReturn(s, n, "false")
              ELSE checkChildrenCanLeave(
                     [s EXCEPT !.navs[n].stack =
                         Append(@, [node |-> st[Len(st)].child, idx |-> 1, child |-> 0])], n)
         [] nv.pc = "cclret" ->
              IF st = <<>>
              THEN (IF nv.ret = "throw" THEN Settle(s, n, "rejected")
                    ELSE IF nv.ret = "false" THEN Settle(s, n, "fulfilled")
                    ELSE afterChildren(s, n))
              ELSE (IF nv.ret = "true"
                    THEN checkChildrenCanLeave(
                           [s EXCEPT !.navs[n].stack[Len(st)].idx = @ + 1], n)
                    ELSE frameReturn(s, n, nv.ret))

NewNav(x, id, c, pathname, skip, passed, before) ==
    [node |-> x, id |-> id, call |-> c, pathname |-> pathname, skip |-> skip,
     passed |-> passed, pc |-> "start", waiting |-> FALSE, res |-> "none",
     stack |-> <<>>, ret |-> "none", pstate |-> "pending", reactions |-> <<>>,
     route |-> NoRoute, params |-> NoParams, tail |-> UndefStr,
     resolved |-> "pending", fx |-> {}, fxLate |-> {}, fxAfterCall |-> {}, fxOff |-> {},
     overtaken |-> FALSE, superseded |-> FALSE, abandoned |-> FALSE,
     undisturbed |-> TRUE, before |-> before,
     results |-> [leave |-> "none", childleave |-> "none", enter |-> "none"],
     consulted |-> <<>>]

\* a variant of startNavigation that reuses the latest token
startNavigationSameToken(s, c) ==
    LET x == s.calls[c].node
        n == Len(s.navs) + 1
        id == s.navigationId[x]
        s0 == [s EXCEPT !.navs = [i \in 1..Len(s.navs) |->
                  IF s.navs[i].node = x /\ s.navs[i].pstate = "pending"
                  THEN [s.navs[i] EXCEPT !.superseded = TRUE] ELSE s.navs[i]]]
        s1 == [s0 EXCEPT !.navs = Append(@, NewNav(x, id, c, s.calls[c].pathname,
                                                  s.calls[c].skip, s.calls[c].passed,
                                                  CommittedOf(s, x))),
                        !.calls[c].nav = n,
                        !.calls[c].pc = "run"]
        s2 == performNavigation(s1, n)
        s3 == [s2 EXCEPT !.pendingNav[x] = n]
    IN React(s3, n, "fin", c)

\* lines 230-241: a new token, the synchronous part of _performNavigation,
\* the pending marker, and the await of the navigation promise
startNavigation(s, c) ==
    LET x == s.calls[c].node
        n == Len(s.navs) + 1
        id == s.navigationId[x] + 1
        s0 == [s EXCEPT !.navs = [i \in 1..Len(s.navs) |->
                  IF s.navs[i].node = x /\ s.navs[i].pstate = "pending"
                  THEN [s.navs[i] EXCEPT !.superseded = TRUE] ELSE s.navs[i]]]
        s1 == [s0 EXCEPT !.navigationId[x] = id,
                        !.navs = Append(@, NewNav(x, id, c, s.calls[c].pathname,
                                                  s.calls[c].skip, s.calls[c].passed,
                                                  CommittedOf(s, x))),
                        !.calls[c].nav = n,
                        !.calls[c].pc = "run"]
        s2 == performNavigation(s1, n)
        s3 == [s2 EXCEPT !.pendingNav[x] = n]
    IN React(s3, n, "fin", c)

\* a variant of finishCall that clears the marker only after a success
finishCallClearOnSuccess(s, c) ==
    LET x == s.calls[c].node
        n == s.calls[c].nav
    IN [s EXCEPT !.pendingNav[x] =
                     IF @ = n /\ s.navs[n].pstate = "fulfilled" THEN 0 ELSE @,
                 !.calls[c].pc = "done",
                 !.calls[c].outcome = s.navs[n].pstate]

\* lines 242-247: the finally block, and the outcome the caller sees
finishCall(s, c) ==
    LET x == s.calls[c].node
        n == s.calls[c].nav
        s1 == [s EXCEPT !.pendingNav[x] = IF @ = n THEN 0 ELSE @,
                        !.calls[c].pc = "done",
                        !.calls[c].outcome = s.navs[n].pstate]
    IN IF s.calls[c].by = "router" THEN Enq(s1, "url", c) ELSE s1

\* every navigation of x that has not settled learns that a later call was made
MarkOvertaken(s, x) ==
    [s EXCEPT !.navs = [i \in 1..Len(s.navs) |->
        IF s.navs[i].node = x /\ s.navs[i].pstate = "pending"
        THEN [s.navs[i] EXCEPT !.overtaken = TRUE] ELSE s.navs[i]]]

\* a variant of gotoInternal in which a call that has to wait loses its params
gotoInternalDropsParams(s, x, pathname, skip, passed, by) ==
    LET c == Len(s.calls) + 1
        s0 == MarkOvertaken(s, x)
        s1 == [s0 EXCEPT !.calls = Append(@,
                  [node |-> x, pathname |-> pathname, skip |-> skip,
                   passed |-> IF s.pendingNav[x] # 0 THEN NoParams ELSE passed,
                   pc |-> "wait", nav |-> 0, outcome |-> "pending", by |-> by,
                   waitedFor |-> s.pendingNav[x]])]
    IN IF s.pendingNav[x] # 0
       THEN React(s1, s.pendingNav[x], "wait", c)
       ELSE startNavigation(s1, c)

gotoInternal(s, x, pathname, skip, passed, by) ==
    LET c == Len(s.calls) + 1
        s0 == MarkOvertaken(s, x)
        s1 == [s0 EXCEPT !.calls = Append(@,
                  [node |-> x, pathname |-> pathname, skip |-> skip, passed |-> passed,
                   pc |-> "wait", nav |-> 0, outcome |-> "pending", by |-> by,
                   waitedFor |-> s.pendingNav[x]])]
    IN IF s.pendingNav[x] # 0
       THEN React(s1, s.pendingNav[x], "wait", c)
       ELSE startNavigation(s1, c)

\* lines 220-236 of a goto(pathname) call on a node with no pending
\* navigation: a new token and the synchronous part of _performNavigation,
\* which ends inside the leave guard if the current route has one
gotoUntilLeaveGuard(s, x, pathname) ==
    LET c == Len(s.calls) + 1
        n == Len(s.navs) + 1
        id == s.navigationId[x] + 1
        s0 == MarkOvertaken(s, x)
        s1 == [s0 EXCEPT !.navs = [i \in 1..Len(s.navs) |->
                  IF s.navs[i].node = x /\ s.navs[i].pstate = "pending"
                  THEN [s.navs[i] EXCEPT !.superseded = TRUE] ELSE s.navs[i]]]
        s2 == [s1 EXCEPT !.calls = Append(@,
                  [node |-> x, pathname |-> pathname, skip |-> FALSE, passed |-> NoParams,
                   pc |-> "run", nav |-> n, outcome |-> "pending", by |-> "goto",
                   waitedFor |-> 0]),
                        !.navigationId[x] = id,
                        !.navs = Append(@, NewNav(x, id, c, pathname, FALSE, NoParams,
                                                  CommittedOf(s, x)))]
    IN performNavigation(s2, n)

\* the leave guard invoked by the last call of goto calls goto(inner) on the
\* same node before it returns, and does not await it: the inner call runs down
\* to its first await while _pendingNavigation still has the value it had
\* before the outer call.  Lines 237-241: the outer call then stores its own
\* promise in _pendingNavigation and awaits it.
gotoFromLeaveGuard(s, x, inner) ==
    LET c == Len(s.calls)
        n == Len(s.navs)
        s1 == gotoInternal(s, x, inner, FALSE, NoParams, "guard")
        s2 == [s1 EXCEPT !.pendingNav[x] = n]
    IN React(s2, n, "fin", c)

-----------------------------------------------------------------------------
(* router.js: Router.goto *)

\* the entry of window.gotos for the call c
GotoOf(s, c) ==
    s.window.gotos[CHOOSE i \in 1..Len(s.window.gotos) : s.window.gotos[i].call = c]

\* lines 73-101: Router.goto up to `await super.goto(pathname, params)`; the
\* pathname is a non-empty string here.  The node of the Router is node 1.
routerGoto(s, pathname, passed) ==
    IF s.window.isDestroyed THEN s
    ELSE gotoInternal(
           [s EXCEPT !.window.gotos =
               Append(@, [call |-> Len(s.calls) + 1, pathname |-> pathname,
                          originalPathname |-> s.window.pathname])],
           1, pathname, FALSE, passed, "router")

\* lines 101-124: behind the await.  If super.goto threw, urlWasUpdated is
\* false and the error is thrown on; else history.pushState(pathname) if the
\* pathname is not the location of the time of the call.
routerAfterGoto(s, c) ==
    LET g == GotoOf(s, c) IN
    IF s.calls[c].outcome = "fulfilled" /\ g.pathname # g.originalPathname
    THEN [s EXCEPT !.window.pushed = Append(@, [call |-> c, pathname |-> g.pathname]),
                   !.window.pathname = g.pathname]
    ELSE s

-----------------------------------------------------------------------------
(* routes.js: addRoute, removeRoute, clearRoutes, updateRoute *)

\* this._pendingNavigation.then(() => this.op(args)).catch(() => this.op(args))
deferMutation(s, m) ==
    LET x == s.muts[m].node IN
    React([s EXCEPT !.muts[m].on = s.pendingNav[x],
                    !.muts[m].deferred = TRUE],
          s.pendingNav[x], "then", m)

\* the mutation call m changed the table (a record, not program state)
TookEffect(s, m) == [s EXCEPT !.applied[s.muts[m].node] = Append(@, m)]

PathIndex(rs, path) ==
    LET hits == {i \in 1..Len(rs) : rs[i].path = path}
    IN IF hits = {} THEN 0 ELSE CHOOSE i \in hits : \A j \in hits : i <= j

RefIndex(rs, ref) ==
    LET hits == {i \in 1..Len(rs) : rs[i].ref = ref}
    IN IF hits = {} THEN 0 ELSE CHOOSE i \in hits : \A j \in hits : i <= j

RemoveAt(rs, i) == SubSeq(rs, 1, i - 1) \o SubSeq(rs, i + 1, Len(rs))

\* rs.splice(index, 0, r) with a 0-based index
InsertAt(rs, index, r) == SubSeq(rs, 1, index) \o <<r>> \o SubSeq(rs, index + 1, Len(rs))

\* this.goto(this._currentPathname, this._currentPassedParams)
renavigate(s, x) == gotoInternal(s, x, s.curPathname[x], FALSE, s.curPassed[x], "renav")

\* the call m made by a caller returns v; what a replay returns is dropped
Return(s, m, v) ==
    IF s.muts[m].ret = "none" THEN [s EXCEPT !.muts[m].ret = v] ELSE s

\* the goto call that the operation m makes is the next call (a record)
Renavigates(s, m) == [s EXCEPT !.muts[m].renav = Len(s.calls) + 1]

\* lines 449-471: the descriptor goes into the table, and a goto follows if
\* it matches the current pathname
insertRoute(s, m) ==
    LET mu == s.muts[m]
        x == mu.node
    IN IF s.curPathname[x] # UndefStr /\ PatternTest(mu.route, s.curPathname[x])
       THEN renavigate(
              Renavigates(TookEffect(
                  [s EXCEPT !.routes[x] =
                                IF mu.index >= 0 /\ mu.index <= Len(@)
                                THEN InsertAt(@, mu.index, mu.route)
                                ELSE Append(@, mu.route),
                            !.sortedCache[x] = NoCache], m), m), x)
       ELSE TookEffect(
                  [s EXCEPT !.routes[x] =
                                IF mu.index >= 0 /\ mu.index <= Len(@)
                                THEN InsertAt(@, mu.index, mu.route)
                                ELSE Append(@, mu.route),
                            !.sortedCache[x] = NoCache], m)

\* a variant of addRoute that accepts a descriptor without a render function
addRouteNoRenderCheck(s, m) ==
    LET mu == s.muts[m]
        x == mu.node
        r == mu.route
    IN IF r.path = <<>> THEN Return(s, m, "false")
       ELSE IF PathIndex(s.routes[x], r.path) # 0 THEN Return(s, m, "false")
       ELSE IF s.pendingNav[x] # 0 THEN Return(deferMutation(s, m), m, "false")
       ELSE Return(insertRoute(s, m), m, "true")

\* a variant of addRoute whose replay does not look for the path again
addRouteCheckOnce(s, m) ==
    LET mu == s.muts[m]
        x == mu.node
        r == mu.route
    IN IF r.path = <<>> \/ r.render = 0 THEN Return(s, m, "false")
       ELSE IF ~mu.deferred /\ PathIndex(s.routes[x], r.path) # 0 THEN Return(s, m, "false")
       ELSE IF s.pendingNav[x] # 0 THEN Return(deferMutation(s, m), m, "false")
       ELSE Return(insertRoute(s, m), m, "true")

addRoute(s, m) ==
    LET mu == s.muts[m]
        x == mu.node
        r == mu.route
    IN IF r.path = <<>> \/ r.render = 0 THEN Return(s, m, "false")
       ELSE IF PathIndex(s.routes[x], r.path) # 0 THEN Return(s, m, "false")
       ELSE IF s.pendingNav[x] # 0 THEN Return(deferMutation(s, m), m, "false")
       ELSE Return(insertRoute(s, m), m, "true")

removeRoute(s, m) ==
    LET mu == s.muts[m]
        x == mu.node
    IN IF mu.route.ref = 0 /\ mu.path = <<>> THEN s
       ELSE IF s.pendingNav[x] # 0 THEN deferMutation(s, m)
       ELSE LET index == IF mu.route.ref = 0 THEN PathIndex(s.routes[x], mu.path)
                         ELSE RefIndex(s.routes[x], mu.route.ref)
            IN IF index = 0 THEN s
               ELSE LET removedRoute == s.routes[x][index]
                        s1 == TookEffect([s EXCEPT !.routes[x] = RemoveAt(@, index),
                                                   !.sortedCache[x] = NoCache], m)
                    IN IF s1.curRoute[x].ref = removedRoute.ref
                          /\ s1.curPathname[x] # UndefStr
                       THEN renavigate(s1, x)
                       ELSE s1

clearRoutes(s, m) ==
    LET mu == s.muts[m]
        x == mu.node
    IN IF s.pendingNav[x] # 0 THEN deferMutation(s, m)
       ELSE LET s1 == TookEffect([Disturb(s, x, 0) EXCEPT !.sortedCache[x] = NoCache,
                                           !.routes[x] = <<>>,
                                           !.fallback[x] = IF mu.keep THEN @ ELSE NoRoute,
                                           !.curRoute[x] = NoRoute], m)
            IN IF s1.curPathname[x] # UndefStr THEN renavigate(s1, x) ELSE s1

\* the properties of updates that are not undefined replace those of route,
\* except path
ApplyUpdates(route, upd) ==
    [route EXCEPT !.enter = IF upd.enter >= 0 THEN upd.enter ELSE @,
                  !.leave = IF upd.leave >= 0 THEN upd.leave ELSE @,
                  !.render = IF upd.render >= 0 THEN upd.render ELSE @]

updateRoute(s, m) ==
    LET mu == s.muts[m]
        x == mu.node
        i == PathIndex(s.routes[x], mu.path)
    IN IF i = 0 THEN s
       ELSE IF s.pendingNav[x] # 0 THEN deferMutation(s, m)
       ELSE LET s1 == TookEffect(
                        [s EXCEPT !.routes[x][i] = ApplyUpdates(@, mu.upd)], m)
            IN IF s1.curRoute[x].ref = s.routes[x][i].ref /\ mu.upd.render > 0
               THEN [s1 EXCEPT !.hostLog[x].updates = @ + 1]
               ELSE s1

\* the call of a table operation, by a caller or by a deferred replay
mutate(s, m) ==
    CASE s.muts[m].op = "add" -> addRoute(s, m)
      [] s.muts[m].op = "remove" -> removeRoute(s, m)
      [] s.muts[m].op = "clear" -> clearRoutes(s, m)
      [] s.muts[m].op = "update" -> updateRoute(s, m)

NoUpdates == [path |-> UndefStr, enter |-> 0 - 1, leave |-> 0 - 1, render |-> 0 - 1]

NewMut(x, op, route, index, path, keep, upd) ==
    [node |-> x, op |-> op, route |-> route, index |-> index, path |-> path,
     keep |-> keep, upd |-> upd, on |-> 0, deferred |-> FALSE,
     ret |-> "none", renav |-> 0]

\* a caller calls a table operation
callMutation(s, mu) ==
    mutate([s EXCEPT !.muts = Append(@, mu)], Len(s.muts) + 1)

-----------------------------------------------------------------------------
(* routes.js: hostConnected, hostDisconnected, _onRoutesConnected *)

\* the hosts in the document: the hosts of nodes 2 and 3 are inside the host
\* of node 1, the host of node 4 is inside the host of node 2
DomParent(x) == CASE x = 3 -> 1 [] x = 4 -> 2 [] OTHER -> x - 1

RECURSIVE Claimer(_, _)
\* the nearest ancestor whose host carries a routes-connected listener
Claimer(s, a) ==
    IF a = 0 THEN 0
    ELSE IF s.listening[a] THEN a
    ELSE Claimer(s, DomParent(a))

\* a variant of onRoutesConnected that forwards the tail without the passed
\* params
onRoutesConnectedNoParams(s, a, x) ==
    LET s1 == [s EXCEPT !.childRoutes[a] = Append(@, x),
                        !.parentRoutes[x] = a]
        tailGroup == getTailGroup(s.curParams[a])
    IN IF tailGroup # UndefStr
       THEN gotoInternal(s1, x, tailGroup, FALSE, NoParams, "tail")
       ELSE s1

\* _onRoutesConnected of node a receives the event of node x
onRoutesConnected(s, a, x) ==
    LET s1 == [s EXCEPT !.childRoutes[a] = Append(@, x),
                        !.parentRoutes[x] = a]
        tailGroup == getTailGroup(s.curParams[a])
    IN IF tailGroup # UndefStr
       THEN gotoInternal(s1, x, tailGroup, FALSE, s.curPassed[a], "tail")
       ELSE s1

hostConnected(s, x) ==
    LET s1 == [s EXCEPT !.listening[x] = TRUE,
                        !.host[x].active = TRUE,
                        !.host[x].count = @ + 1]
        a == Claimer(s1, DomParent(x))
        s2 == IF a # 0 THEN onRoutesConnected(s1, a, x) ELSE s1
    IN [s2 EXCEPT !.onDisconnect[x] = a]

\* this._childRoutes.splice(this._childRoutes.indexOf(childRoutes) >>> 0, 1)
RemoveChild(kids, x) ==
    LET hits == {i \in 1..Len(kids) : kids[i] = x}
    IN IF hits = {} THEN kids
       ELSE RemoveAt(kids, CHOOSE i \in hits : \A j \in hits : i <= j)

\* every navigation of x that has not settled learns that the host of x was
\* disconnected (a record, not program state)
MarkAbandoned(s, x) ==
    [s EXCEPT !.navs = [i \in 1..Len(s.navs) |->
        IF s.navs[i].node = x /\ s.navs[i].pstate = "pending"
        THEN [s.navs[i] EXCEPT !.abandoned = TRUE] ELSE s.navs[i]]]

\* a variant of hostDisconnected that does not call _onDisconnect
hostDisconnectedKeepChild(s, x) ==
    [MarkAbandoned(s, x) EXCEPT !.parentRoutes[x] = 0,
                                !.pendingNav[x] = 0,
                                !.host[x].active = FALSE,
                                !.host[x].count = @ + 1]

hostDisconnected(s, x) ==
    LET a == s.onDisconnect[x]
        s0 == MarkAbandoned(s, x)
        s1 == IF a # 0 THEN [s0 EXCEPT !.childRoutes[a] = RemoveChild(@, x)] ELSE s0
    IN [s1 EXCEPT !.parentRoutes[x] = 0,
                  !.pendingNav[x] = 0,
                  !.host[x].active = FALSE,
                  !.host[x].count = @ + 1]

-----------------------------------------------------------------------------
(* The microtask queue *)

\* a variant of runJob in which a deferred table operation is replayed only
\* when the navigation it waited for succeeded
runJobThenOnly(s, job) ==
    CASE job.kind = "nav" -> resumeNavigation(s, job.id)
      [] job.kind = "wait" -> startNavigation(s, job.id)
      [] job.kind = "fin" -> finishCall(s, job.id)
      [] job.kind = "then" ->
            IF s.navs[s.muts[job.id].on].pstate = "fulfilled"
            THEN mutate(s, job.id)
            ELSE s
      [] job.kind = "catch" -> mutate(s, job.id)
      [] job.kind = "url" -> routerAfterGoto(s, job.id)

runJob(s, job) ==
    CASE job.kind = "nav" -> resumeNavigation(s, job.id)
      [] job.kind = "wait" -> startNavigation(s, job.id)
      [] job.kind = "fin" -> finishCall(s, job.id)
      [] job.kind = "then" ->
            IF s.navs[s.muts[job.id].on].pstate = "fulfilled"
            THEN mutate(s, job.id)
            ELSE Enq(s, "catch", job.id)
      [] job.kind = "catch" -> mutate(s, job.id)
      [] job.kind = "url" -> routerAfterGoto(s, job.id)

-----------------------------------------------------------------------------
(* The configuration that is explored *)

Nodes == {1, 2, 3, 4}

\* bounds on the calls made from outside
MaxGoto == 2
MaxRaceGoto == 3
MaxFailGoto == 2
MaxMutGoto == 2
MaxMut == 2
MaxHost == 3
MaxRecGoto == 2
MaxTailGoto == 3
MaxHostGoto == 2
MaxAddGoto == 1
MaxAdd == 2
MaxRenavGoto == 2
MaxRenavAdd == 1
MaxOrderGoto == 2
MaxTable == 4
MaxStatic == 2
MaxDynamic == 10
MaxOptional == 1
MaxWildcard == 1
MaxExec == 2
MaxSlashes == 2
MaxRoundExec == 2
MaxIdemGoto == 2
MaxRouterGoto == 2
MaxLeaveGoto == 4
MaxForwardGoto == 2
MaxRegisterGoto == 2
MaxRegister == 3
MaxEmptyGoto == 2
MaxFallbackGoto == 2
MaxDigitGoto == 2
MaxSlashGoto == 2
MaxLiveGoto == 2
MaxLiveMut == 1

PA == <<"/", "a">>
PB == <<"/", "b">>
PCB == <<"/", "c", "/", "b">>
PX == <<"/", "x">>
PCX == <<"/", "c", "/", "x">>
PCBSlash == <<"/", "c", "/", "b", "/">>
PCSlash == <<"/", "c", "/">>
TA == <<"/", "a">>
TB == <<"/", "b">>
TCW == <<"/", "c", "/", "*">>
TDyn == <<"/", ":", "x">>
TC == <<"/", "c">>
TCX1 == <<"/", "c", "/", ":", "x", "1">>

Q1 == [k \in {<<"q">>} |-> <<"1">>]

\* "/client/*", "/orders" and "/client/orders"
TClientTail == <<"/", "c", "l", "i", "e", "n", "t", "/", "*">>
TOrders == <<"/", "o", "r", "d", "e", "r", "s">>
PClientOrders == <<"/", "c", "l", "i", "e", "n", "t", "/", "o", "r", "d", "e", "r", "s">>
PClient == <<"/", "c", "l", "i", "e", "n", "t">>

\* "/users/:id/posts", "/users/*", "/users/:id", "/users/:n",
\* "/users/42/posts" and "/users/42"
TUsersIdPosts == <<"/", "u", "s", "e", "r", "s", "/", ":", "i", "d", "/", "p", "o", "s", "t", "s">>
TUsersWild == <<"/", "u", "s", "e", "r", "s", "/", "*">>
TUsersId == <<"/", "u", "s", "e", "r", "s", "/", ":", "i", "d">>
TUsersN == <<"/", "u", "s", "e", "r", "s", "/", ":", "n">>
PUsers42Posts == <<"/", "u", "s", "e", "r", "s", "/", "4", "2", "/", "p", "o", "s", "t", "s">>
PUsers42 == <<"/", "u", "s", "e", "r", "s", "/", "4", "2">>

\* the tables the controllers are constructed with
InitRoutes(x) ==
    IF x = 1 THEN <<Route(1, TA, 1, 1, 1), Route(2, TCW, 0, 0, 1)>>
    ELSE <<Route(10 * x + 1, TB, 0, 1, 1)>>

\* the arguments of goto() that are explored
GotoArgs == {<<PA, Q1>>, <<PCB, NoParams>>}
MutGotoArgs == {<<PA, Q1>>}
IdemArgs == {<<PA, Q1>>, <<PA, NoParams>>, <<PCB, Q1>>, <<PCB, NoParams>>}
RaceArgs == {<<PA, Q1>>, <<PA, NoParams>>}
FailArgs == {<<PA, NoParams>>, <<PX, Q1>>}

\* the arguments of the table operations that are explored
MutArgs(x) ==
    {NewMut(x, "add", Route(3, TDyn, 0, 0, 1), 0 - 1, <<>>, TRUE, NoUpdates),
     NewMut(x, "remove", NoRoute, 0 - 1, TA, TRUE, NoUpdates),
     NewMut(x, "clear", NoRoute, 0 - 1, <<>>, TRUE, NoUpdates),
     NewMut(x, "update", NoRoute, 0 - 1, TA, TRUE, [NoUpdates EXCEPT !.leave = 0])}

\* the calls of the table operations that are explored next to a navigation to
\* "/a": add of "/b" (twice, with two descriptors), of a descriptor without a
\* path, of one without a render function and of another "/a"; an update that
\* names a path, a remove and a clear
AddArgs(x) ==
    {NewMut(x, "add", Route(5, TB, 0, 0, 1), 0 - 1, <<>>, TRUE, NoUpdates),
     NewMut(x, "add", Route(9, TB, 0, 0, 1), 0, <<>>, TRUE, NoUpdates),
     NewMut(x, "add", Route(6, <<>>, 0, 0, 1), 0 - 1, <<>>, TRUE, NoUpdates),
     NewMut(x, "add", Route(7, TB, 0, 0, 0), 0 - 1, <<>>, TRUE, NoUpdates),
     NewMut(x, "add", Route(8, TA, 0, 0, 1), 0 - 1, <<>>, TRUE, NoUpdates),
     NewMut(x, "update", NoRoute, 0 - 1, TA, TRUE, [NoUpdates EXCEPT !.path = TCW]),
     NewMut(x, "remove", NoRoute, 0 - 1, TB, TRUE, NoUpdates),
     NewMut(x, "clear", NoRoute, 0 - 1, <<>>, TRUE, NoUpdates)}

\* the descriptors that add is called with next to navigations to "/c/b":
\* "/c" with an enter guard, which matches the committed "/c/" and ranks
\* first; "/:x" at index 0, which matches it and ranks last; and "/b", which
\* does not match it
RenavArgs(x) ==
    {NewMut(x, "add", Route(3, TC, 1, 0, 1), 0 - 1, <<>>, TRUE, NoUpdates),
     NewMut(x, "add", Route(4, TDyn, 0, 0, 1), 0, <<>>, TRUE, NoUpdates),
     NewMut(x, "add", Route(5, TB, 0, 0, 1), 0 - 1, <<>>, TRUE, NoUpdates)}

-----------------------------------------------------------------------------
(* Initial states *)

ConstructedState ==
    [routes |-> [x \in Nodes |-> InitRoutes(x)],
     fallback |-> [x \in Nodes |-> NoRoute],
     sortedCache |-> [x \in Nodes |-> NoCache],
     childRoutes |-> [x \in Nodes |-> <<>>],
     parentRoutes |-> [x \in Nodes |-> 0],
     curPathname |-> [x \in Nodes |-> UndefStr],
     curRoute |-> [x \in Nodes |-> NoRoute],
     curParams |-> [x \in Nodes |-> NoParams],
     curPassed |-> [x \in Nodes |-> NoParams],
     pendingNav |-> [x \in Nodes |-> 0],
     navigationId |-> [x \in Nodes |-> 0],
     onDisconnect |-> [x \in Nodes |-> 0],
     listening |-> [x \in Nodes |-> FALSE],
     calls |-> <<>>, navs |-> <<>>, muts |-> <<>>, queue |-> <<>>,
     hostLog |-> [x \in Nodes |-> [updates |-> 0, events |-> <<>>]],
     host |-> [x \in Nodes |-> [active |-> FALSE, count |-> 0]],
     applied |-> [x \in Nodes |-> <<>>],
     execs |-> <<>>,
     window |-> [pathname |-> <<"/">>, pushed |-> <<>>, gotos |-> <<>>, isDestroyed |-> FALSE],
     burst |-> FALSE]

\* the state of s in the variables
IsState(s) ==
    /\ routes = s.routes
    /\ fallback = s.fallback
    /\ sortedCache = s.sortedCache
    /\ childRoutes = s.childRoutes
    /\ parentRoutes = s.parentRoutes
    /\ curPathname = s.curPathname
    /\ curRoute = s.curRoute
    /\ curParams = s.curParams
    /\ curPassed = s.curPassed
    /\ pendingNav = s.pendingNav
    /\ navigationId = s.navigationId
    /\ onDisconnect = s.onDisconnect
    /\ listening = s.listening
    /\ calls = s.calls
    /\ navs = s.navs
    /\ muts = s.muts
    /\ queue = s.queue
    /\ hostLog = s.hostLog
    /\ host = s.host
    /\ applied = s.applied
    /\ execs = s.execs
    /\ window = s.window

\* the controllers as constructed
Constructed == IsState(ConstructedState)

\* the hosts were connected, outermost first: node 2 is registered as the
\* child of node 1
ConnectedState == hostConnected(hostConnected(ConstructedState, 1), 2)

Init == IsState(ConnectedState)

\* a parent with the table [{path: "/client/*"}] and a registered child with
\* the table [{path: "/orders"}], no guards
TailRoutes(x) ==
    IF x = 1 THEN <<Route(1, TClientTail, 0, 0, 1)>>
    ELSE <<Route(10 * x + 1, TOrders, 0, 0, 1)>>

TailState ==
    hostConnected(hostConnected(
        [ConstructedState EXCEPT !.routes = [x \in Nodes |-> TailRoutes(x)]], 1), 2)

InitTail == IsState(TailState)

\* a root whose host holds the hosts of nodes 3 and 2, connected in that
\* order, and the host of node 4 inside that of node 2
LeaveState ==
    hostConnected(hostConnected(hostConnected(hostConnected(ConstructedState, 1), 3), 2), 4)

InitLeave == IsState(LeaveState)

\* the tree of four whose root was constructed with no descriptors and no
\* fallback
EmptyState ==
    hostConnected(hostConnected(hostConnected(hostConnected(
        [ConstructedState EXCEPT !.routes[1] = <<>>], 1), 3), 2), 4)

InitEmpty == IsState(EmptyState)

\* the tree of four whose root was constructed with the table "/a", "/c/*"
\* and a fallback that has an enter guard
FallbackState ==
    hostConnected(hostConnected(hostConnected(hostConnected(
        [ConstructedState EXCEPT !.fallback[1] = Route(90, <<>>, 1, 0, 1)], 1), 3), 2), 4)

InitFallback == IsState(FallbackState)

\* the tree of four whose root was constructed with the table "/c/:x1",
\* "/:x", no guards
DigitState ==
    hostConnected(hostConnected(hostConnected(hostConnected(
        [ConstructedState EXCEPT !.routes[1] =
            <<Route(61, TCX1, 0, 0, 1), Route(62, TDyn, 0, 0, 1)>>], 1), 3), 2), 4)

InitDigit == IsState(DigitState)

\* the root's host is connected, the others are not yet
RegisterState == hostConnected(ConstructedState, 1)

InitRegister == IsState(RegisterState)

\* the descriptors of the tables whose order of resolution is explored
OrderPool ==
    {Route(31, TUsersIdPosts, 0, 0, 1), Route(32, TUsersWild, 0, 0, 1),
     Route(33, TUsersId, 0, 0, 1), Route(34, TUsersN, 0, 0, 1)}

\* the tables of two to MaxTable of them, in every order, no path twice
OrderTables ==
    {t \in UNION {[1..n -> OrderPool] : n \in 2..MaxTable} :
        \A i, j \in DOMAIN t : t[i] = t[j] => i = j}

\* a single controller constructed with the table t, its host connected
OrderState(t) == hostConnected([ConstructedState EXCEPT !.routes[1] = t], 1)

InitOrder == \E t \in OrderTables : IsState(OrderState(t))

\* "/s/:q?", "/c/**", "/*/*", "/s" and "/s/x"
TSOpt == <<"/", "s", "/", ":", "q", "?">>
TCDeep == <<"/", "c", "/", "*", "*">>
TWW == <<"/", "*", "/", "*">>
PS == <<"/", "s">>
PSX == <<"/", "s", "/", "x">>

RECURSIVE Repeat(_, _)
\* n times the string seg
Repeat(seg, n) == IF n = 0 THEN <<>> ELSE seg \o Repeat(seg, n - 1)

\* a template of st static segments "/a", dy dynamic segments "/:x", op
\* optional segments "/:x?" and wi wildcard segments "/*"
Template(st, dy, op, wi) ==
    Repeat(<<"/", "a">>, st) \o Repeat(<<"/", ":", "x">>, dy)
        \o Repeat(<<"/", ":", "x", "?">>, op) \o Repeat(<<"/", "*">>, wi)

Templates ==
    {Template(st, dy, op, wi) :
        st \in 0..MaxStatic, dy \in 0..MaxDynamic,
        op \in 0..MaxOptional, wi \in 0..MaxWildcard} \ {<<>>}

\* a single controller constructed with a table of two templates
InitScore ==
    \E t, u \in Templates :
        /\ t # u
        /\ IsState([ConstructedState EXCEPT
                        !.routes[1] = <<Route(41, t, 0, 0, 1), Route(42, u, 0, 0, 1)>>])

\* the segments of the templates that are matched against their own
\* substitutions: a static one, two dynamic ones, and a dynamic one named "*"
RoundSegs == {<<"a">>, <<":", "x">>, <<":", "y">>, <<":", "*">>}

\* the values that are substituted for dynamic segments
RoundValues == {<<"b">>, <<"4", "2">>}

\* templates of one or two segments, as sequences of segments
RoundTemplates == {<<s>> : s \in RoundSegs} \cup {<<s, t>> : s, t \in RoundSegs}

RECURSIVE JoinSegs(_)
\* the segments written as a path: each preceded by a slash
JoinSegs(segs) ==
    IF segs = <<>> THEN <<>> ELSE <<"/">> \o Head(segs) \o JoinSegs(Tail(segs))

\* the pathname of the template segs with the value v[i] in the place of
\* its i-th segment if that is dynamic
Substitute(segs, v) ==
    JoinSegs([i \in 1..Len(segs) |-> IF StartsWithColon(segs[i]) THEN v[i] ELSE segs[i]])

\* one value for each dynamic segment of segs
RoundAssignments(segs) ==
    {v \in [1..Len(segs) -> RoundValues \cup {<<>>}] :
        \A i \in 1..Len(segs) : (v[i] = <<>>) <=> ~StartsWithColon(segs[i])}

\* the templates and the pathnames that exec is called with: a static, a
\* dynamic, an optional and the two wildcard forms; and pathnames with no, one
\* or more trailing slashes
MatchTemplates == {TA, TDyn, TSOpt, TCW, TCDeep, TWW}

MatchPaths ==
    {b \o Repeat(<<"/">>, k) : b \in {PA, PCB, PS, PSX}, k \in 0..MaxSlashes}

-----------------------------------------------------------------------------
(* Actions *)

\* code outside the router can run now: between two jobs that were not
\* enqueued back to back, or when no job is left
CallerMayRun == IF queue = <<>> THEN TRUE ELSE ~Head(queue).contig

EnvGotos == Cardinality({c \in 1..Len(calls) : calls[c].by \in {"goto", "recover"}})

\* goto(pathname, params)
Goto(x, pathname, passed, max) ==
    /\ CallerMayRun
    /\ EnvGotos < max
    /\ Install(gotoInternal(Pack, x, pathname, FALSE, passed, "goto"))

\* goto on node x, to "/a" on the root and to "/b" on the others, called
\* when every earlier call has settled; the other nodes navigate once
LeaveGoto(x) ==
    /\ \A c \in 1..Len(calls) : calls[c].pc = "done"
    /\ x # 1 => \A c \in 1..Len(calls) : calls[c].node # x
    /\ Goto(x, IF x = 1 THEN PA ELSE PB, NoParams, MaxLeaveGoto)

\* goto(pathname, {q: "1"}) on the root, called when the earlier calls on the
\* root have settled; those forwarded to its children may be pending
ForwardGoto(pathname) ==
    /\ \A c \in 1..Len(calls) : calls[c].node = 1 => calls[c].pc = "done"
    /\ Goto(1, pathname, Q1, MaxForwardGoto)

\* goto(pathname, {q: "1"}) on the root with the empty table, called when the
\* earlier calls on the root have settled
EmptyGoto(pathname) ==
    /\ \A c \in 1..Len(calls) : calls[c].node = 1 => calls[c].pc = "done"
    /\ Goto(1, pathname, Q1, MaxEmptyGoto)

\* goto(pathname, {q: "1"}) on the root with the fallback, called when the
\* earlier calls on the root have settled
FallbackGoto(pathname) ==
    /\ \A c \in 1..Len(calls) : calls[c].node = 1 => calls[c].pc = "done"
    /\ Goto(1, pathname, Q1, MaxFallbackGoto)

\* Router.goto(pathname, params) on the root node
RouterGoto(pathname, passed, max) ==
    /\ CallerMayRun
    /\ Cardinality({c \in 1..Len(calls) : calls[c].by = "router"}) < max
    /\ Install(routerGoto(Pack, pathname, passed))

\* _gotoRecover(pathname)
Recover(x, pathname, max) ==
    /\ CallerMayRun
    /\ EnvGotos < max
    /\ Install(gotoInternal(Pack, x, pathname, TRUE, NoParams, "recover"))

\* addRoute, removeRoute, clearRoutes or updateRoute
Mutate(mu, max) ==
    /\ CallerMayRun
    /\ Len(muts) < max
    /\ Install(callMutation(Pack, mu))

\* _getRoute(pathname) on a table holding only the descriptor r finds it
Finds(r, pathname) == FirstOf(<<r>>, Hits(<<r>>, pathname)).ref = r.ref

\* getPattern(route).exec(pathname) on a descriptor with the template t, and
\* the lookup of pathname in a table holding that descriptor only
Exec(t, pathname, max) ==
    /\ CallerMayRun
    /\ Len(execs) < max
    /\ Install([Pack EXCEPT !.execs =
           Append(@, [path |-> t, pathname |-> pathname,
                      found |-> Finds(Route(50, t, 0, 0, 1), pathname),
                      matched |-> PatternExec(Route(50, t, 0, 0, 1), pathname).matched,
                      params |-> PatternExec(Route(50, t, 0, 0, 1), pathname).params])])

HostConnected(x) ==
    /\ CallerMayRun
    /\ ~host[x].active
    /\ host[x].count < MaxHost
    /\ Install(hostConnected(Pack, x))

HostDisconnected(x) ==
    /\ CallerMayRun
    /\ host[x].active
    /\ host[x].count < MaxHost
    /\ Install(hostDisconnected(Pack, x))

\* goto(pathname, {q: "1"}) on the root, called when every earlier call has
\* settled
RegisterGoto(pathname) ==
    /\ \A c \in 1..Len(calls) : calls[c].pc = "done"
    /\ Goto(1, pathname, Q1, MaxRegisterGoto)

\* the host of x is connected inside hosts that are connected or whose
\* controller has not been connected yet
RegisterConnect(x) ==
    /\ host[2].count + host[4].count < MaxRegister
    /\ x = 4 => host[2].active \/ host[2].count = 0
    /\ HostConnected(x)

\* the host of x, which holds no connected host, is disconnected
RegisterDisconnect(x) ==
    /\ host[2].count + host[4].count < MaxRegister
    /\ x = 2 => ~host[4].active
    /\ HostDisconnected(x)

\* the guard that navigation n awaits returns true or nothing ("permit"),
\* returns false, or throws
GuardSettles(n, res) ==
    /\ navs[n].waiting
    /\ Install(Enq([Pack EXCEPT !.navs[n].waiting = FALSE, !.navs[n].res = res,
                                 !.navs[n].results[navs[n].pc] = res], "nav", n))

\* the first job of the microtask queue runs
RunJob ==
    /\ queue # <<>>
    /\ Install(runJob([Pack EXCEPT !.queue = Tail(@)], Head(queue)))

GuardResults == {"permit", "false", "throw"}

GuardStep == \E n \in 1..Len(navs), res \in GuardResults : GuardSettles(n, res)

\* a guard returns true or nothing
GuardPermits == \E n \in 1..Len(navs) : GuardSettles(n, "permit")

\* a guard returns, and does not throw
GuardReturns == \E n \in 1..Len(navs), res \in {"permit", "false"} : GuardSettles(n, res)

\* goto(pathname) on node x when it has no pending navigation and its current
\* route has a leave guard, which calls goto(inner) on x without awaiting it
GotoFromLeave(x, pathname, inner, max) ==
    /\ CallerMayRun
    /\ EnvGotos < max
    /\ pendingNav[x] = 0
    /\ curRoute[x].ref # 0
    /\ curRoute[x].leave # 0
    /\ \E inGuard \in {gotoUntilLeaveGuard(Pack, x, pathname)} :
          Install(gotoFromLeaveGuard(inGuard, x, inner))

\* navigations of node 1 with its child registered
Next ==
    \/ \E a \in GotoArgs : Goto(1, a[1], a[2], MaxGoto)
    \/ GuardStep
    \/ RunJob

Spec == Init /\ [][Next]_vars

\* calls of goto that pile up on node 1
NextRace ==
    \/ \E a \in RaceArgs : Goto(1, a[1], a[2], MaxRaceGoto)
    \/ GuardReturns
    \/ RunJob

SpecRace == Init /\ [][NextRace]_vars

\* navigations that fail and recovery
NextFail ==
    \/ \E a \in FailArgs : Goto(1, a[1], a[2], MaxFailGoto)
    \/ Recover(1, PA, MaxFailGoto)
    \/ GuardStep
    \/ RunJob

SpecFail == Init /\ [][NextFail]_vars

\* navigations of node 1 and operations on its table
NextMut ==
    \/ \E a \in MutGotoArgs : Goto(1, a[1], a[2], MaxMutGoto)
    \/ \E mu \in MutArgs(1) : Mutate(mu, MaxMut)
    \/ GuardStep
    \/ RunJob

SpecMut == Init /\ [][NextMut]_vars

\* navigations into the child, and recovery
NextRecover ==
    \/ Goto(1, PCB, NoParams, MaxRecGoto)
    \/ Recover(1, PCB, MaxRecGoto)
    \/ GuardStep
    \/ RunJob

SpecRecover == Init /\ [][NextRecover]_vars

\* a navigation of node 1, and calls of the table operations
NextAdd ==
    \/ Goto(1, PA, Q1, MaxAddGoto)
    \/ \E mu \in AddArgs(1) : Mutate(mu, MaxAdd)
    \/ GuardReturns
    \/ RunJob

SpecAdd == Init /\ [][NextAdd]_vars

\* navigations into the child, and calls of add
NextRenav ==
    \/ Goto(1, PCB, Q1, MaxRenavGoto)
    \/ \E mu \in RenavArgs(1) : Mutate(mu, MaxRenavAdd)
    \/ GuardReturns
    \/ RunJob

SpecRenav == Init /\ [][NextRenav]_vars

\* navigations of a controller whose table holds templates that match the
\* same pathnames
NextOrder ==
    \/ \E p \in {PUsers42Posts, PUsers42} : Goto(1, p, NoParams, MaxOrderGoto)
    \/ RunJob

SpecOrder == InitOrder /\ [][NextOrder]_vars

\* goto(p, q) on node 1, and the same call again before the first has
\* settled; every guard returns a non-false value
GotoFirst == calls = <<>> /\ \E a \in IdemArgs : Goto(1, a[1], a[2], MaxIdemGoto)

GotoAgain ==
    /\ calls # <<>>
    /\ calls[1].pc # "done"
    /\ Goto(1, calls[1].pathname, calls[1].passed, MaxIdemGoto)

NextIdem ==
    \/ GotoFirst
    \/ GotoAgain
    \/ GuardPermits
    \/ RunJob

SpecIdem == Init /\ [][NextIdem]_vars

\* navigations of the nodes of a tree of four, one after the other
NextLeave ==
    \/ \E x \in Nodes : LeaveGoto(x)
    \/ GuardStep
    \/ RunJob

SpecLeave == InitLeave /\ [][NextLeave]_vars

\* navigations of the root of the tree of four to "/a", which captures no
\* tail, to "/c/b", whose tail "b" the children's tables match, and to "/c/x",
\* whose tail they do not match
NextForward ==
    \/ \E p \in {PA, PCB, PCX} : ForwardGoto(p)
    \/ GuardStep
    \/ RunJob

SpecForward == InitLeave /\ [][NextForward]_vars

\* hosts that connect and disconnect below a root that navigates to "/a"
\* (no tail) and to "/c/b" (tail "b")
NextRegister ==
    \/ \E p \in {PA, PCB} : RegisterGoto(p)
    \/ \E x \in {2, 4} : RegisterConnect(x)
    \/ \E x \in {2, 4} : RegisterDisconnect(x)
    \/ GuardPermits
    \/ RunJob

SpecRegister == InitRegister /\ [][NextRegister]_vars

\* navigations of a root with an empty table and no fallback; the children's
\* tables hold "/b"
NextEmpty ==
    \/ \E p \in {PA, PB, PCB} : EmptyGoto(p)
    \/ GuardStep
    \/ RunJob

SpecEmpty == InitEmpty /\ [][NextEmpty]_vars

\* navigations of a root with a fallback to pathnames that its table matches
\* ("/a", "/c/b") and does not match ("/b", "/x")
NextFallback ==
    \/ \E p \in {PA, PCB, PB, PX} : FallbackGoto(p)
    \/ GuardStep
    \/ RunJob

SpecFallback == InitFallback /\ [][NextFallback]_vars

\* navigations of a root whose table has dynamic segments only, one of them
\* with a digit in its name
NextDigit ==
    \/ \E p \in {PA, PCB} : \E q \in {NoParams, Q1} : Goto(1, p, q, MaxDigitGoto)
    \/ GuardStep
    \/ RunJob

SpecDigit == InitDigit /\ [][NextDigit]_vars

\* navigations of node 1 to "/c/b", "/c/b/" and "/c/"
NextSlash ==
    \/ \E p \in {PCB, PCBSlash, PCSlash} : \E q \in {NoParams, Q1} : Goto(1, p, q, MaxSlashGoto)
    \/ GuardStep
    \/ RunJob

SpecSlash == Init /\ [][NextSlash]_vars

\* the table operations called next to the navigations of SpecLive: an add of
\* "/:x" and a clear
LiveArgs(x) ==
    {NewMut(x, "add", Route(3, TDyn, 0, 0, 1), 0 - 1, <<>>, TRUE, NoUpdates),
     NewMut(x, "clear", NoRoute, 0 - 1, <<>>, TRUE, NoUpdates)}

\* goto and _gotoRecover on node 1, goto from inside its leave guard, and
\* operations on its table
NextLive ==
    \/ \E p \in {PA, PX} : Goto(1, p, NoParams, MaxLiveGoto)
    \/ Recover(1, PA, MaxLiveGoto)
    \/ \E p \in {PA, PX} : GotoFromLeave(1, PA, p, MaxLiveGoto)
    \/ \E mu \in LiveArgs(1) : Mutate(mu, MaxLiveMut)
    \/ GuardStep
    \/ RunJob

\* a step that is neither a call from outside nor the return of a guard: under
\* NextLive these are the steps of RunJob
JobRun ==
    /\ EnvGotos' = EnvGotos
    /\ Len(muts') = Len(muts)
    /\ \A n \in 1..Len(navs) : navs[n].waiting => navs'[n].waiting

\* every step of RunJob is recognised by JobRun, and no other step is
JobRunIsRunJob == [][RunJob <=> JobRun]_vars

\* a job never leaves the state as it was: RunJob is enabled, as a step that
\* changes vars, exactly when the queue is not empty
RunJobProgresses ==
    queue # <<>> =>
        [runJob([Pack EXCEPT !.queue = Tail(@)], Head(queue)) EXCEPT !.burst = FALSE] # Pack

\* the microtask queue is drained: WF_vars(RunJob), written out as
\* []<>~ENABLED <<RunJob>>_vars \/ []<><<RunJob>>_vars with the two facts above
FairJobs == []<>(queue = <<>>) \/ []<><<JobRun>>_vars

\* at most this many navigations start under NextLive: one for each call from
\* outside, one for each call from inside a guard, one for each re-navigation
\* of a table operation
LiveNavs == 2 * MaxLiveGoto + MaxLiveMut

\* every guard invocation returns or throws: no navigation waits for a guard
\* forever
FairGuards == \A n \in 1..LiveNavs : []<>(Len(navs) < n \/ ~navs[n].waiting)

SpecLive == Init /\ [][NextLive]_vars /\ FairJobs /\ FairGuards

\* calls of Router.goto on node 1, whose location is "/" at first
NextRouter ==
    \/ \E a \in GotoArgs : RouterGoto(a[1], a[2], MaxRouterGoto)
    \/ GuardStep
    \/ RunJob

SpecRouter == Init /\ [][NextRouter]_vars

\* calls of exec on compiled templates
NextMatch == \E t \in MatchTemplates, p \in MatchPaths : Exec(t, p, MaxExec)

SpecMatch == Init /\ [][NextMatch]_vars

\* calls of exec on a compiled template with a pathname made from it
NextRound ==
    \E segs \in RoundTemplates : \E v \in RoundAssignments(segs) :
        Exec(JoinSegs(segs), Substitute(segs, v), MaxRoundExec)

SpecRound == Init /\ [][NextRound]_vars

\* _getSortedRoutes() of node x scores and sorts the table
SortRoutes(x) ==
    /\ ~sortedCache[x].valid
    /\ Install(getSortedRoutes(Pack, x).s)

NextScore == SortRoutes(1)

SpecScore == InitScore /\ [][NextScore]_vars

\* navigations into the child while the host of the child is disconnected
\* and connected again
NextHost ==
    \/ Goto(1, PCB, NoParams, MaxHostGoto)
    \/ HostDisconnected(2)
    \/ HostConnected(2)
    \/ GuardReturns
    \/ RunJob

SpecHost == Init /\ [][NextHost]_vars

\* navigations of the parent of the tail propagation example
NextTail ==
    \/ \E q \in {NoParams, Q1} : Goto(1, PClientOrders, q, MaxTailGoto)
    \/ RunJob

SpecTail == InitTail /\ [][NextTail]_vars

-----------------------------------------------------------------------------
(* Properties *)

NavIds == 1..Len(navs)
CallIds == 1..Len(calls)

Settled(n) == navs[n].pstate # "pending"
Did(n, e) == e \in navs[n].fx

\* the committed state of node x
Committed(x) == CommittedOf(Pack, x)

\* what a navigation of x to pathname with the passed params resolves to
\* against the table as it is now
Resolution(x, pathname, passed) ==
    LET route == getRoute(Pack, x, pathname).route
        params == PatternExecParams(route, pathname)
        tail == getTailGroup(params)
    IN [pathname |-> IF tail = UndefStr THEN pathname
                     ELSE SubSeq(pathname, 1, Len(pathname) - Len(tail)),
        route |-> route, params |-> params, passed |-> passed]

\* navigation n makes its commit in this step
Commits(n) == ~Did(n, "commit") /\ "commit" \in navs'[n].fx

\* C1: when navigate(B) was called while navigate(A) was pending on the
\* node, and B's navigation committed and no later navigation of the node
\* did, then once B's call has settled the committed state is B's resolution;
\* and a navigation commits only while it holds the latest token of its node,
\* so A never commits after B was given a token.
C1_LastWins ==
    \A b \in CallIds :
        LET x == calls[b].node
            nb == calls[b].nav
        IN (/\ calls[b].waitedFor # 0
            /\ calls[b].pc = "done"
            /\ Did(nb, "commit")
            /\ \A n \in NavIds : navs[n].node = x /\ navs[n].id > navs[nb].id
                                    => ~Did(n, "commit"))
           => Committed(x) = Resolution(x, calls[b].pathname, calls[b].passed)

C1_CommitHoldsToken ==
    \A n \in NavIds : Commits(n) => navigationId'[navs[n].node] = navs[n].id

C1_NoStaleCommit == [](C1_LastWins) /\ [][C1_CommitHoldsToken]_vars

\* C1 witness: B was called while A was pending, both committed, with
\* different params and so different resolutions, and both calls have settled
C1_Witness ==
    \E b \in CallIds :
        /\ calls[b].by = "goto" /\ calls[b].waitedFor # 0 /\ calls[b].pc = "done"
        /\ Did(calls[b].nav, "commit") /\ Did(calls[b].waitedFor, "commit")
        /\ calls[navs[calls[b].waitedFor].call].passed # calls[b].passed
        /\ calls[navs[calls[b].waitedFor].call].pc = "done"

\* C2 (as claimed): at no instant are two navigations of one node both
\* between their start and their settlement
C2_Serialized ==
    \A x \in Nodes :
        Cardinality({n \in NavIds : navs[n].node = x /\ ~Settled(n)}) <= 1

Observable == {"commit", "render", "notify"}

\* C3 (as claimed): a navigation that is in flight when a new navigate()
\* call is made on its node never afterwards commits, requests a render or
\* emits a commit notification
C3_CallInvalidates ==
    \A n \in NavIds : navs[n].fxAfterCall \cap Observable = {}

\* C3 (amended): a navigation that is in flight when a later navigation of
\* its node starts, and with it a newer token is issued, never afterwards
\* commits, requests a render or emits a commit notification
C3_TokenInvalidates ==
    \A n \in NavIds : navs[n].fxLate \cap Observable = {}

\* C3 witness: a navigation was waiting for a guard when a later navigation
\* of its node started, the guard then permitted, and it has settled
C3_Witness ==
    \E n \in NavIds :
        /\ navs[n].superseded /\ Settled(n)
        /\ "permit" \in {navs[n].results.leave, navs[n].results.childleave}
        /\ navigationId[navs[n].node] > navs[n].id

\* C4: a navigation whose own leave guard returned false calls no other
\* guard, commits nothing, forwards no tail, requests no render and emits no
\* notification; it settles without raising, and when it settles the
\* committed state is the one from before it started (unless another
\* navigation of the node wrote it meanwhile).
C4_VetoInv ==
    \A n \in NavIds :
        navs[n].results.leave = "false"
        => /\ navs[n].fx = {"leave"}
           /\ navs[n].pstate # "rejected"
           /\ calls[navs[n].call].outcome # "rejected"

C4_VetoStep ==
    \A n \in NavIds :
        (navs[n].results.leave = "false" /\ navs[n].pc = "leave" /\ navs'[n].pc # "leave")
        => /\ navs'[n].pstate = "fulfilled"
           /\ Committed(navs[n].node)' = Committed(navs[n].node)
           /\ navs[n].undisturbed => Committed(navs[n].node)' = navs[n].before

C4_LeaveVeto == [](C4_VetoInv) /\ [][C4_VetoStep]_vars

\* C4 witness: a navigation of a node with a committed route was vetoed by
\* the leave guard and its call has settled
C4_Witness ==
    \E n \in NavIds :
        /\ navs[n].results.leave = "false" /\ calls[navs[n].call].pc = "done"
        /\ calls[navs[n].call].outcome = "fulfilled"
        /\ navs[n].before.route.ref # 0 /\ navs[n].undisturbed

\* C5: until the enter guard has approved, the navigation has changed no
\* field of the committed state; when the guard returns false the navigation
\* settles without raising and commits nothing, forwards no tail, requests
\* no render and emits no notification.
C5_VetoInv ==
    \A n \in NavIds :
        /\ navs[n].pc = "enter" /\ navs[n].undisturbed
              => Committed(navs[n].node) = navs[n].before
        /\ navs[n].results.enter = "false"
              => /\ navs[n].fx \cap {"commit", "forward", "render", "notify"} = {}
                 /\ navs[n].pstate # "rejected"
                 /\ calls[navs[n].call].outcome # "rejected"

C5_VetoStep ==
    \A n \in NavIds :
        (navs[n].results.enter = "false" /\ navs[n].pc = "enter" /\ navs'[n].pc # "enter")
        => /\ navs'[n].pstate = "fulfilled"
           /\ Committed(navs[n].node)' = Committed(navs[n].node)
           /\ navs[n].undisturbed => Committed(navs[n].node)' = navs[n].before

C5_EnterVeto == [](C5_VetoInv) /\ [][C5_VetoStep]_vars

\* C5 witness: the enter guard vetoed a navigation away from a committed
\* route, and the call has settled
C5_Witness ==
    \E n \in NavIds :
        /\ navs[n].results.enter = "false" /\ calls[navs[n].call].pc = "done"
        /\ navs[n].before.route.ref # 0 /\ navs[n].undisturbed
        /\ navs[n].before.pathname # navs[n].pathname

Threw(n) == \E k \in {"leave", "childleave", "enter"} : navs[n].results[k] = "throw"

\* C6: when a guard of the navigation (the leave guard, a descendant's leave
\* guard in the children step, or the enter guard) throws, the navigation
\* commits nothing, its promise rejects, the caller's promise rejects, and
\* once the call has settled the pending marker does not name the navigation.
C6_FaultInv ==
    \A n \in NavIds :
        Threw(n)
        => /\ ~Did(n, "commit")
           /\ navs[n].pstate # "fulfilled"
           /\ calls[navs[n].call].outcome # "fulfilled"
           /\ calls[navs[n].call].pc = "done"
                 => /\ calls[navs[n].call].outcome = "rejected"
                    /\ pendingNav[navs[n].node] # n

C6_FaultStep ==
    \A n \in NavIds :
        (Threw(n) /\ ~Settled(n) /\ navs'[n].pstate # "pending")
        => /\ Committed(navs[n].node)' = Committed(navs[n].node)
           /\ navs[n].undisturbed => Committed(navs[n].node)' = navs[n].before

C6_GuardFault == [](C6_FaultInv) /\ [][C6_FaultStep]_vars

\* C6 witness: the leave guard of a descendant threw in the children step
\* and the call has settled, rejected
C6_Witness ==
    \E n \in NavIds :
        /\ navs[n].results.childleave = "throw"
        /\ calls[navs[n].call].pc = "done"
        /\ calls[navs[n].call].outcome = "rejected"
        /\ pendingNav[navs[n].node] = 0

\* no descriptor of the table of x matches pathname and there is no fallback
NoMatchCase(x, pathname) ==
    /\ Len(routes[x]) > 0
    /\ fallback[x].ref = 0
    /\ \A i \in 1..Len(routes[x]) : ~PatternTest(routes[x][i], pathname)

\* C7: a navigation that reaches the matching step with a non-empty table
\* none of whose descriptors matches, and no fallback, rejects; it leaves
\* the committed state unchanged, never commits, and its caller sees the
\* rejection.
C7_NoMatchStep ==
    \A n \in NavIds :
        (/\ navs[n].resolved = "pending" /\ navs'[n].resolved # "pending"
         /\ NoMatchCase(navs[n].node, navs[n].pathname))
        => /\ navs'[n].pstate = "rejected"
           /\ Committed(navs[n].node)' = Committed(navs[n].node)

C7_NoMatchInv ==
    \A n \in NavIds :
        navs[n].pathname = PX /\ navs[n].node = 1
        => /\ ~Did(n, "commit")
           /\ navs[n].pstate # "fulfilled" \/ navs[n].resolved = "pending"
           /\ calls[navs[n].call].pc = "done" /\ navs[n].resolved # "pending"
                 => calls[navs[n].call].outcome = "rejected"

C7_NoMatch == [](C7_NoMatchInv) /\ [][C7_NoMatchStep]_vars

\* C7 witness: a navigation away from a committed route found no match, its
\* call has settled rejected, and the committed route is still there
C7_Witness ==
    \E n \in NavIds :
        /\ navs[n].resolved = "nomatch"
        /\ calls[navs[n].call].pc = "done"
        /\ calls[navs[n].call].outcome = "rejected"
        /\ navs[n].before.route.ref # 0
        /\ Committed(navs[n].node) = navs[n].before

\* the table operation that took effect in this step on node x, or 0
Effected(x) ==
    IF Len(applied'[x]) > Len(applied[x]) THEN applied'[x][Len(applied'[x])] ELSE 0

\* C8: the table of a node does not change in a step throughout which a
\* navigation of the node is in flight (started and not settled), and no
\* operation takes effect twice.
C8_StableStep ==
    \A n \in NavIds :
        ~Settled(n) /\ navs'[n].pstate = "pending"
        => /\ routes'[navs[n].node] = routes[navs[n].node]
           /\ fallback'[navs[n].node] = fallback[navs[n].node]

C8_OnceInv ==
    \A x \in Nodes : \A i, j \in 1..Len(applied[x]) :
        applied[x][i] = applied[x][j] => i = j

C8_TableStable == [](C8_OnceInv) /\ [][C8_StableStep]_vars

\* C9: the table operations of a node take effect in the order in which they
\* were called.
C9_Fifo ==
    \A x \in Nodes : \A i, j \in 1..Len(applied[x]) :
        i < j => applied[x][i] < applied[x][j]

\* C10: a step in which remove takes the descriptor out of the table that
\* the committed route of the node was resolved from, while the node has a
\* committed pathname, starts a goto of the node to that pathname.
C10_Step ==
    \A x \in Nodes :
        (/\ Effected(x) # 0
         /\ muts'[Effected(x)].op = "remove"
         /\ curRoute[x].ref # 0
         /\ curPathname[x] # UndefStr
         /\ RefIndex(routes[x], 0 - curRoute[x].ref) # 0
         /\ RefIndex(routes'[x], 0 - curRoute[x].ref) = 0)
        => \E c \in (Len(calls) + 1)..Len(calls') :
               /\ calls'[c].by = "renav"
               /\ calls'[c].node = x
               /\ calls'[c].pathname = curPathname[x]

C10_RemoveRenavigates == [][C10_Step]_vars

LeaveGuards == {"leave", "childleave"}

\* C11: a recover navigation calls neither the leave guard of the current
\* route of its node nor, in a children step, that of a descendant; and in
\* the step in which it forwards its tail, no navigation that the forwarding
\* starts on a descendant calls a leave guard.
C11_OwnInv ==
    \A n \in NavIds : navs[n].skip => navs[n].fx \cap LeaveGuards = {}

C11_ForwardStep ==
    \A n \in 1..Len(navs') :
        (/\ navs'[n].skip
         /\ "forward" \in navs'[n].fx
         /\ n > Len(navs) \/ "forward" \notin navs[n].fx)
        => \A m \in (Len(navs) + 1)..Len(navs') :
               navs'[m].fx \cap LeaveGuards = {}

C11_RecoverNoLeave == [](C11_OwnInv) /\ [][C11_ForwardStep]_vars

\* C12: with the parent table [{path: "/client/*"}] and a registered child
\* with the table [{path: "/orders"}], once navigate("/client/orders") on the
\* parent and everything it started have settled, the parent's committed
\* local pathname is "/client", navigate("/orders") was forwarded to the
\* child, and the child's committed pathname is "/orders".
C12_TailPropagation ==
    (/\ queue = <<>>
     /\ \E c \in CallIds : calls[c].by = "goto" /\ calls[c].pathname = PClientOrders)
    => /\ curPathname[1] = PClient
       /\ \E t \in CallIds :
              calls[t].by = "tail" /\ calls[t].node = 2 /\ calls[t].pathname = TOrders
       /\ curPathname[2] = TOrders

\* C13: a navigation that was in flight when the host of its node was
\* disconnected never afterwards commits, requests a render, emits a commit
\* notification or forwards a tail.
C13_Abandoned ==
    \A n \in NavIds :
        navs[n].fxOff \cap {"commit", "render", "notify", "forward"} = {}

\* C14: no child set contains a node whose host is disconnected; a tail is
\* forwarded only to nodes whose host is connected, and a children step
\* calls the leave guard only of nodes whose host is connected.
C14_ChildSetInv ==
    \A a \in Nodes : \A i \in 1..Len(childRoutes[a]) : host[childRoutes[a][i]].active

C14_Step ==
    /\ \A c \in (Len(calls) + 1)..Len(calls') :
           calls'[c].by = "tail" => host'[calls'[c].node].active
    /\ \A n \in 1..Len(navs') :
           (/\ navs'[n].pc = "childleave" /\ navs'[n].waiting
            /\ n > Len(navs) \/ ~(navs[n].pc = "childleave" /\ navs[n].waiting))
           => host'[navs'[n].stack[Len(navs'[n].stack)].child].active

C14_NoDeactivatedChild == [](C14_ChildSetInv) /\ [][C14_Step]_vars

\* C14 witness: the child has a committed route with a leave guard and its
\* host is disconnected, and the parent has since navigated and forwarded
\* a tail that went to no child
C14_Witness ==
    /\ ~host[2].active
    /\ curRoute[2].ref # 0 /\ curRoute[2].leave # 0
    /\ queue = <<>>
    /\ Cardinality({n \in NavIds : navs[n].node = 1 /\ Did(n, "forward")})
         > Cardinality({c \in CallIds : calls[c].node = 2 /\ calls[c].by = "tail"})

\* the notifications that the host of x received from navigation n
EventsOf(x, n) == {i \in 1..Len(hostLog[x].events) : hostLog[x].events[i].nav = n}

Vetoed(n) == \E k \in {"leave", "childleave", "enter"} : navs[n].results[k] = "false"

\* C15: a navigation requests a render and emits a commit notification only
\* in the step in which it commits, holding the latest token of its node, and
\* it does both exactly once; a navigation that a guard vetoed, that a later
\* navigation of its node superseded or that failed does neither; and the
\* pathname, params, passedParams and route of the notification are the
\* committed state of the node at that moment.
C15_OnceInv ==
    \A n \in NavIds :
        LET x == navs[n].node IN
        /\ Did(n, "render") <=> Did(n, "notify")
        /\ Did(n, "render") <=> Did(n, "commit")
        /\ Cardinality(EventsOf(x, n)) = IF Did(n, "notify") THEN 1 ELSE 0
        /\ Vetoed(n) \/ navs[n].pstate = "rejected"
              => ~Did(n, "render") /\ ~Did(n, "notify")
        /\ navs[n].fxLate \cap {"render", "notify"} = {}

C15_CountInv ==
    \A x \in Nodes :
        /\ hostLog[x].updates = Len(hostLog[x].events)
        /\ Len(hostLog[x].events)
              = Cardinality({n \in NavIds : navs[n].node = x /\ Did(n, "notify")})

C15_NotifyStep ==
    \A n \in 1..Len(navs') :
        (/\ "notify" \in navs'[n].fx
         /\ n > Len(navs) \/ ~Did(n, "notify"))
        => LET x == navs'[n].node
               ev == hostLog'[x].events[Len(hostLog'[x].events)]
           IN /\ navigationId'[x] = navs'[n].id
              /\ n > Len(navs) \/ ~Did(n, "commit")
              /\ Len(hostLog'[x].events) = Len(hostLog[x].events) + 1
              /\ hostLog'[x].updates = hostLog[x].updates + 1
              /\ ev.nav = n
              /\ [pathname |-> ev.pathname, route |-> ev.route,
                  params |-> ev.params, passed |-> ev.passedParams]
                   = [pathname |-> curPathname'[x], route |-> curRoute'[x],
                      params |-> curParams'[x], passed |-> curPassed'[x]]

C15_RenderOnCommit == [](C15_OnceInv /\ C15_CountInv) /\ [][C15_NotifyStep]_vars

\* C15 witness: of two navigations of a node, the earlier one was superseded
\* and settled without a notification, a navigation was vetoed, and the
\* later one committed and notified a state different from the one before it
C15_Witness ==
    \E n, m \in NavIds :
        /\ navs[n].node = navs[m].node /\ navs[n].id < navs[m].id
        /\ navs[n].superseded /\ Settled(n) /\ ~Did(n, "notify")
        /\ Did(m, "notify") /\ navs[m].before.route.ref # 0
        /\ navs[m].before.passed # navs[m].passed
        /\ \E v \in NavIds : Vetoed(v) /\ Settled(v)

\* the descriptor is one that add refuses on the table rs
Refused(r, rs) == r.path = <<>> \/ r.render = 0 \/ PathIndex(rs, r.path) # 0

\* C16: a call of add with a descriptor that has no path or no render
\* function, or whose path is the path of a descriptor of the table, returns
\* false and changes nothing: not the table, not the sorted view, not the
\* navigation state, and the call is not queued.
C16_Step ==
    (/\ Len(muts') = Len(muts) + 1
     /\ muts'[Len(muts')].op = "add"
     /\ Refused(muts'[Len(muts')].route, routes[muts'[Len(muts')].node]))
    => /\ muts'[Len(muts')].ret = "false"
       /\ ~muts'[Len(muts')].deferred
       /\ SubSeq(muts', 1, Len(muts)) = muts
       /\ UNCHANGED <<routes, fallback, sortedCache, childRoutes, parentRoutes,
                      curPathname, curRoute, curParams, curPassed, pendingNav,
                      navigationId, onDisconnect, listening, calls, navs, queue,
                      hostLog, host, applied>>

C16_AddRejects == [][C16_Step]_vars

\* C16 witness: a navigation is pending, and add was called with a
\* descriptor whose path is already in the table and with one that has no
\* render function; both calls returned false and neither was queued
C16_Witness ==
    /\ pendingNav[1] # 0
    /\ \E m, k \in 1..Len(muts) :
           /\ muts[m].op = "add" /\ muts[m].route.path = TA
           /\ muts[k].op = "add" /\ muts[k].route.render = 0
           /\ muts[m].ret = "false" /\ muts[k].ret = "false"
           /\ ~muts[m].deferred /\ ~muts[k].deferred

\* C17: no two descriptors of a table have the same path.
C17_UniquePaths ==
    \A x \in Nodes : \A i, j \in 1..Len(routes[x]) :
        routes[x][i].path = routes[x][j].path => i = j

\* C17 witness: two add calls for the same path were deferred behind the
\* same navigation, both were replayed, and the first of them took effect
C17_Witness ==
    \E m, k \in 1..Len(muts) :
        /\ m < k
        /\ muts[m].op = "add" /\ muts[k].op = "add"
        /\ muts[m].route.path = muts[k].route.path
        /\ muts[m].deferred /\ muts[k].deferred /\ muts[m].on = muts[k].on
        /\ \E i \in 1..Len(applied[1]) : applied[1][i] = m
        /\ queue = <<>>
        /\ PathIndex(routes[1], muts[m].route.path) # 0

\* the template t has the higher score than u, or the same score and the
\* higher specificity
Outranks(t, u) ==
    \/ ScoreCmp(scoreRoute(t), scoreRoute(u)) > 0
    \/ ScoreCmp(scoreRoute(t), scoreRoute(u)) = 0
       /\ SpecCmp(scoreRoute(t), scoreRoute(u)) > 0

\* the descriptor with identity ref is the first, in the order score
\* descending, specificity descending, position ascending, of the
\* descriptors of rs that match pathname
RanksFirst(rs, ref, pathname) ==
    LET i == RefIndex(rs, ref)
    IN /\ i # 0
       /\ PatternTest(rs[i], pathname)
       /\ \A j \in 1..Len(rs) :
              j # i /\ PatternTest(rs[j], pathname)
              => \/ Outranks(rs[i].path, rs[j].path)
                 \/ ~Outranks(rs[j].path, rs[i].path) /\ i < j

\* C18: in the step in which an add takes effect, a goto of the node to its
\* committed pathname with its committed passed params is called if the new
\* descriptor matches that pathname, and no goto is called if it does not or
\* if the node has no committed pathname; and when the navigation of that
\* goto settles, all its guards having permitted and the new descriptor
\* ranking first among the matching ones, the committed route is the new
\* descriptor.
C18_AddStep ==
    \A x \in Nodes :
        (Effected(x) # 0 /\ muts'[Effected(x)].op = "add")
        => IF curPathname[x] # UndefStr
              /\ PatternTest(muts'[Effected(x)].route, curPathname[x])
           THEN /\ Len(calls') = Len(calls) + 1
                /\ muts'[Effected(x)].renav = Len(calls')
                /\ calls'[Len(calls')].by = "renav"
                /\ calls'[Len(calls')].node = x
                /\ calls'[Len(calls')].pathname = curPathname[x]
                /\ calls'[Len(calls')].passed = curPassed[x]
           ELSE /\ Len(calls') = Len(calls)
                /\ muts'[Effected(x)].renav = 0

C18_SettleStep ==
    \A m \in 1..Len(muts) :
        LET c == muts[m].renav
            n == calls[c].nav
        IN (/\ muts[m].op = "add" /\ c # 0 /\ n # 0
            /\ ~Settled(n) /\ navs'[n].pstate # "pending"
            /\ \A k \in {"leave", "childleave", "enter"} :
                   navs[n].results[k] \in {"none", "permit"}
            /\ RanksFirst(routes[navs[n].node], muts[m].route.ref, navs[n].pathname))
           => /\ navs'[n].pstate = "fulfilled"
              /\ curRoute'[navs[n].node].ref = 0 - muts[m].route.ref
              /\ curRoute'[navs[n].node].path = muts[m].route.path

C18_AddRenavigates == [][C18_AddStep /\ C18_SettleStep]_vars

\* C18 witness: the node had committed "/c/" with passed params; add of "/c"
\* took effect and called goto; the leave guard of the child's route and the
\* enter guard of the new descriptor permitted; the call has settled and the
\* committed route is the new descriptor
C18_Witness ==
    \E m \in 1..Len(muts) :
        LET c == muts[m].renav IN
        /\ muts[m].op = "add" /\ c # 0
        /\ calls[c].pc = "done" /\ calls[c].outcome = "fulfilled"
        /\ calls[c].passed = Q1
        /\ navs[calls[c].nav].results.childleave = "permit"
        /\ navs[calls[c].nav].results.enter = "permit"
        /\ curRoute[1].ref = 0 - muts[m].route.ref

\* C19: a navigation resolves to the descriptor that comes first among the
\* matching descriptors of the table in the order score descending, then
\* specificity descending, then position in the table ascending; with
\* "/users/:id/posts" and "/users/*" both in the table, in either order, a
\* navigation to "/users/42/posts" resolves to "/users/:id/posts".
C19_Step ==
    \A n \in 1..Len(navs') :
        (/\ navs'[n].resolved = "route"
         /\ n > Len(navs) \/ navs[n].resolved = "pending")
        => /\ RanksFirst(routes[navs'[n].node], 0 - navs'[n].route.ref,
                         navs'[n].pathname)
           /\ (/\ navs'[n].pathname = PUsers42Posts
               /\ PathIndex(routes[navs'[n].node], TUsersIdPosts) # 0
               /\ PathIndex(routes[navs'[n].node], TUsersWild) # 0)
              => navs'[n].route.path = TUsersIdPosts

C19_ResolutionOrder == [][C19_Step]_vars

\* C19 witness: the table holds "/users/*" before "/users/:id/posts" and
\* "/users/:n" before "/users/:id"; a navigation to "/users/42/posts" has
\* committed "/users/:id/posts", and one to "/users/42" has resolved to
\* "/users/:n", which has the same score and specificity as "/users/:id" and
\* the lower position
C19_Witness ==
    /\ PathIndex(routes[1], TUsersWild) # 0
    /\ PathIndex(routes[1], TUsersWild) < PathIndex(routes[1], TUsersIdPosts)
    /\ PathIndex(routes[1], TUsersN) # 0
    /\ PathIndex(routes[1], TUsersN) < PathIndex(routes[1], TUsersId)
    /\ ~Outranks(TUsersN, TUsersId) /\ ~Outranks(TUsersId, TUsersN)
    /\ \E n, m \in NavIds :
           /\ navs[n].pathname = PUsers42Posts /\ Did(n, "commit")
           /\ navs[n].route.path = TUsersIdPosts
           /\ navs[m].pathname = PUsers42 /\ navs[m].resolved = "route"
           /\ navs[m].route.path = TUsersN
           /\ curRoute[1].path \in {TUsersIdPosts, TUsersN}

\* C20: of two templates of a table, the one with strictly more static
\* segments and no more wildcard segments has the strictly greater score,
\* and so comes first in the sorted view, whatever their numbers of dynamic
\* and optional segments.
C20_ScoreDominance ==
    sortedCache[1].valid
    => \A i, j \in 1..Len(sortedCache[1].sorted) :
           LET t == scoreRoute(sortedCache[1].sorted[i].path)
               u == scoreRoute(sortedCache[1].sorted[j].path)
           IN (t.staticSegments > u.staticSegments /\ t.wildcards <= u.wildcards)
              => ScoreCmp(t, u) > 0 /\ i < j

\* C21: for a pathname p that ends with "/" and is not "/", exec of a
\* compiled template on p and on p without its last slash return the same:
\* both null, or both a match with equal params.
C21_TrailingSlash ==
    \A i, j \in 1..Len(execs) :
        (/\ execs[i].path = execs[j].path
         /\ execs[i].pathname # <<"/">>
         /\ execs[i].pathname[Len(execs[i].pathname)] = "/"
         /\ execs[j].pathname = SubSeq(execs[i].pathname, 1, Len(execs[i].pathname) - 1))
        => /\ execs[i].matched = execs[j].matched
           /\ execs[i].params = execs[j].params

\* the call e of exec is a round trip: its pathname has a non-empty value
\* in the place of each dynamic segment of its template, and the static
\* segments as they are
IsRoundTrip(e) ==
    LET segs == Segments(e.path)
        vals == Segments(e.pathname)
    IN /\ Len(segs) = Len(vals)
       /\ e.pathname = JoinSegs(vals)
       /\ \A i \in 1..Len(segs) :
              /\ ~IsWildcardSeg(segs[i]) /\ ~IsOptionalSeg(segs[i])
              /\ IsStaticSeg(segs[i]) => vals[i] = segs[i]

\* the call e of exec matched, and its params are the substituted values
\* under the names of the dynamic segments
RoundTrips(e) ==
    LET segs == Segments(e.path)
        vals == Segments(e.pathname)
        dyn == {i \in 1..Len(segs) : IsDynamicSeg(segs[i])}
    IN /\ e.matched
       /\ DOMAIN e.params = {Tail(segs[i]) : i \in dyn}
       /\ \A i \in dyn : e.params[Tail(segs[i])] = vals[i]

\* the names of the dynamic segments of the template are pairwise different
\* and none is "*" or "**"
PlainNames(path) ==
    LET segs == Segments(path)
        dyn == {i \in 1..Len(segs) : IsDynamicSeg(segs[i])}
    IN /\ \A i, j \in dyn : segs[i] = segs[j] => i = j
       /\ \A i \in dyn : ~IsWildcardSeg(Tail(segs[i]))

C23_Idempotent ==
    (/\ calls # <<>>
     /\ \A c \in CallIds : calls[c].node = 1 => calls[c].pc = "done")
    => Committed(1) = Resolution(1, calls[1].pathname, calls[1].passed)

\* C23 witness: goto("/a", {q: "1"}) was called twice, the second call
\* waited for the first; the first committed after its enter guard, the
\* second after the leave guard of "/a" and the enter guard; both settled
C23_Witness ==
    /\ Len(calls) = 2
    /\ calls[1].pathname = PA /\ calls[2].pathname = PA
    /\ calls[1].passed = Q1 /\ calls[2].passed = Q1
    /\ calls[2].waitedFor = calls[1].nav
    /\ calls[1].pc = "done" /\ calls[2].pc = "done"
    /\ Did(calls[1].nav, "commit") /\ Did(calls[2].nav, "commit")
    /\ navs[calls[2].nav].results.leave = "permit"
    /\ navs[calls[2].nav].results.enter = "permit"
    /\ Committed(1) = navs[calls[2].nav].before

\* C24: Router.goto pushes a history entry only for a navigation that
\* succeeded: not when a leave or enter guard returned false, not when the
\* navigation was superseded, not when it failed.
C24_PushOnSuccess ==
    \A i \in 1..Len(window.pushed) :
        LET n == calls[window.pushed[i].call].nav
        IN /\ navs[n].pstate = "fulfilled"
           /\ ~Vetoed(n)
           /\ Did(n, "commit")

\* C25: a template ending in an optional dynamic segment matches the path
\* without that segment and the path with it, and the lookup of either path
\* finds the descriptor: "/s/:q?" matches "/s" and "/s/x".
C25_OptionalTrailing ==
    \A i \in 1..Len(execs) :
        execs[i].path = TSOpt /\ execs[i].pathname \in {PS, PSX}
            => execs[i].matched /\ execs[i].found

\* node x's currentRoute or currentParams differ after the step
C26_Changed(x) == curRoute'[x] # curRoute[x] \/ curParams'[x] # curParams[x]

\* a navigation of node x commits in the step
C26_CommitOf(x) ==
    \E n \in 1..Len(navs') :
        /\ navs'[n].node = x
        /\ "commit" \in navs'[n].fx
        /\ n <= Len(navs) => ~Did(n, "commit")

\* C26: currentRoute and currentParams of a node change only in a step in
\* which a navigation of that node commits: no table operation (add, remove,
\* update, clear) and no vetoed, superseded or failed navigation changes
\* either.
C26_CommitOnly == [][\A x \in Nodes : C26_Changed(x) => C26_CommitOf(x)]_vars

RECURSIVE LeaveOrder(_)
\* the nodes below the nodes of kids that have a current route with a leave
\* guard, depth-first: each node of kids in order, itself and then the nodes
\* below it
LeaveOrder(kids) ==
    IF kids = <<>> THEN <<>>
    ELSE (IF curRoute[Head(kids)].ref # 0 /\ curRoute[Head(kids)].leave # 0
          THEN <<Head(kids)>> ELSE <<>>)
         \o LeaveOrder(childRoutes[Head(kids)]) \o LeaveOrder(Tail(kids))

IsPrefix(a, b) == Len(a) <= Len(b) /\ SubSeq(b, 1, Len(a)) = a

\* navigation n is in its children-leave step
InChildrenStep(n) == navs[n].pc \in {"children", "childleave", "cclret"}

C27_Inv ==
    \A n \in NavIds :
        /\ InChildrenStep(n) /\ navs[n].pstate = "pending"
              => IsPrefix(navs[n].consulted, LeaveOrder(childRoutes[navs[n].node]))
        /\ navs[n].results.childleave = "false"
              => /\ navs[n].fx \subseteq {"leave", "childleave"}
                 /\ navs[n].pstate # "rejected"

C27_Step ==
    \A n \in NavIds :
        /\ navs'[n].consulted # navs[n].consulted
              => /\ navs[n].results.childleave \in {"none", "permit"}
                 /\ IsPrefix(navs'[n].consulted, LeaveOrder(childRoutes[navs[n].node]))
        /\ (InChildrenStep(n) /\ ~InChildrenStep(n)' /\ navs[n].ret = "true")
              => navs[n].consulted = LeaveOrder(childRoutes[navs[n].node])
        /\ (InChildrenStep(n) /\ navs'[n].pstate # "pending"
             /\ navs[n].results.childleave = "false")
              => /\ navs'[n].pstate = "fulfilled"
                 /\ Committed(navs[n].node)' = Committed(navs[n].node)
                 /\ navs[n].undisturbed => Committed(navs[n].node)' = navs[n].before

\* C27: in the children-leave step of a navigation the leave guards of the
\* current routes of the registered descendants are invoked depth-first (a
\* child's own guard before the guards below it, children in registration
\* order), all of them if none returns false; after the first that returns
\* false no further guard is invoked and the navigation settles without
\* raising and leaves the committed state of its node as it was.
C27_ChildrenLeave == [](C27_Inv) /\ [][C27_Step]_vars

\* C27 witness: a navigation of the root, whose registered children are 3 and
\* 2 and whose grandchild is 4, asked 3 and 2 and then 4, which returned
\* false, and has settled
C27_Witness ==
    \E n \in NavIds :
        /\ navs[n].node = 1 /\ navs[n].consulted = <<3, 2, 4>>
        /\ navs[n].results.childleave = "false"
        /\ navs[n].pstate = "fulfilled" /\ calls[navs[n].call].pc = "done"

\* navigation n commits in the step
CommitsNow(n) == n <= Len(navs) /\ ~Did(n, "commit") /\ "commit" \in navs'[n].fx

\* the calls made in the step are goto(tail, passed), one on each node of kids
ForwardedTo(kids, tail, passed) ==
    /\ Len(calls') = Len(calls) + Len(kids)
    /\ \A i \in 1..Len(kids) :
          LET c == calls'[Len(calls) + i]
          IN c.node = kids[i] /\ c.pathname = tail /\ c.passed = passed /\ c.by = "tail"

C28_Step ==
    /\ \A n \in 1..Len(navs') :
          CommitsNow(n)
          => /\ navs'[n].pstate = "fulfilled"
             /\ IF navs'[n].tail # UndefStr
                THEN ForwardedTo(childRoutes[navs[n].node], navs'[n].tail, navs[n].passed)
                ELSE Len(calls') = Len(calls)
    /\ \A c \in (Len(calls) + 1)..Len(calls') :
          calls'[c].by = "tail"
          => \E n \in 1..Len(navs') :
                /\ CommitsNow(n) /\ navs'[n].tail # UndefStr
                /\ navs[n].node = parentRoutes[calls'[c].node]
    /\ \A m \in NavIds :
          (/\ calls[navs[m].call].by = "tail"
           /\ navs[m].pstate = "pending" /\ navs'[m].pstate # "pending"
           /\ "commit" \notin navs'[m].fx)
          => LET a == parentRoutes[navs[m].node]
             IN /\ Committed(a)' = Committed(a)
                /\ \A c \in CallIds : calls[c].node = a => calls'[c].outcome = calls[c].outcome

C28_Inv ==
    \A n \in NavIds :
        Did(n, "commit")
        => /\ navs[n].pstate = "fulfilled"
           /\ calls[navs[n].call].outcome # "rejected"
           /\ calls[navs[n].call].pc = "done" => calls[navs[n].call].outcome = "fulfilled"

\* C28: in the step in which a navigation commits with a tail capture,
\* goto(tail, passedParams) is called on every registered child of its node,
\* in registration order, and the navigation's promise fulfils in that same
\* step; with no tail capture no call is made, and no call is forwarded in
\* any other step.  A forwarded navigation that is vetoed, finds no match or
\* throws leaves the committed state of the parent and the outcome of the
\* parent's calls as they were.
C28_TailForward == [](C28_Inv) /\ [][C28_Step]_vars

\* C28 witness: the root committed "/c/x" with the tail "x", its call has
\* settled fulfilled, the forwarded navigations of both children have
\* settled rejected, and the root's committed route is still "/c/*"
C28_Witness ==
    \E n \in NavIds :
        /\ navs[n].node = 1 /\ Did(n, "commit") /\ navs[n].tail = <<"x">>
        /\ calls[navs[n].call].pc = "done" /\ calls[navs[n].call].outcome = "fulfilled"
        /\ curRoute[1].path = TCW /\ curPathname[1] = <<"/", "c", "/">>
        /\ \A x \in {2, 3} : \E c \in CallIds :
              /\ calls[c].node = x /\ calls[c].by = "tail" /\ calls[c].pathname = <<"x">>
              /\ calls[c].pc = "done" /\ calls[c].outcome = "rejected"

\* the number of segments "*" or "**" of a template
WildcardCount(path) ==
    Cardinality({i \in 1..Len(Segments(path)) :
                    Segments(path)[i] \in {<<"*">>, <<"*", "*">>}})

\* the key of the wildcard capture number j, for j < 10
WildcardKey(j) == <<<<"0", "1", "2", "3", "4", "5", "6", "7", "8", "9">>[j + 1]>>

\* C29: a successful match of a template with k wildcard segments ("*" or
\* "**") records captures under exactly the numeric keys 0..k-1, and a
\* template ending in "**" yields the tail that the same template ending in
\* "*" yields.
C29_WildcardKeys ==
    \A i \in 1..Len(execs) :
        execs[i].matched
        => /\ {k \in DOMAIN execs[i].params : IsNumericKey(k)}
                = {WildcardKey(j) : j \in 0..(WildcardCount(execs[i].path) - 1)}
           /\ execs[i].path = TCDeep
                 => getTailGroup(execs[i].params)
                      = getTailGroup(PatternExecParams(Route(50, TCW, 0, 0, 1),
                                                       execs[i].pathname))

RECURSIVE NearestActive(_)
\* the nearest node above x in the document whose host is connected, or 0
NearestActive(x) ==
    IF DomParent(x) = 0 THEN 0
    ELSE IF host[DomParent(x)].active THEN DomParent(x)
    ELSE NearestActive(DomParent(x))

\* the navigations of node a that have committed
CommittedNavs(a) == {n \in NavIds : navs[n].node = a /\ Did(n, "commit")}

\* the tail capture of the last commit of node a, or undefined
LastTail(a) ==
    IF CommittedNavs(a) = {} THEN UndefStr
    ELSE navs[CHOOSE n \in CommittedNavs(a) :
                  \A m \in CommittedNavs(a) : navs[m].id <= navs[n].id].tail

C30_Step ==
    \A x \in Nodes :
        (~host[x].active /\ host'[x].active)
        => LET a == NearestActive(x)
           IN IF a = 0
              THEN /\ childRoutes' = childRoutes
                   /\ parentRoutes'[x] = 0
                   /\ Len(calls') = Len(calls)
              ELSE /\ childRoutes' = [childRoutes EXCEPT ![a] = Append(@, x)]
                   /\ parentRoutes' = [parentRoutes EXCEPT ![x] = a]
                   /\ IF LastTail(a) # UndefStr
                      THEN /\ Len(calls') = Len(calls) + 1
                           /\ calls'[Len(calls')].node = x
                           /\ calls'[Len(calls')].pathname = LastTail(a)
                           /\ calls'[Len(calls')].passed = curPassed[a]
                           /\ calls'[Len(calls')].by = "tail"
                           /\ calls'[Len(calls')].pc # "wait"
                                 \/ calls'[Len(calls')].waitedFor # 0
                      ELSE Len(calls') = Len(calls)

\* C30: when the host of a node is connected, the nearest connected node
\* above it appends the node to its children and becomes its parent; if the
\* last commit of that node has a tail capture, goto(tail, passed params of
\* that node) is called on the new child in the same step, and its navigation
\* starts at once unless the child has a navigation pending; if it has none,
\* no goto is called.
C30_Registration == [][C30_Step]_vars

\* C30 witness: node 4, whose host is inside the host of node 2, which has
\* never been connected, was registered by the root after the root committed
\* "/c/b", and was navigated to the tail "b" with the root's passed params
C30_Witness ==
    /\ host[2].count = 0 /\ host[4].active /\ parentRoutes[4] = 1
    /\ 4 \in {childRoutes[1][i] : i \in 1..Len(childRoutes[1])}
    /\ \E c \in CallIds :
          /\ calls[c].node = 4 /\ calls[c].by = "tail"
          /\ calls[c].pathname = <<"b">> /\ calls[c].passed = Q1
          /\ calls[c].pc = "done"

\* the table of node x is empty and it has no fallback
C31_Empty(x) == routes[x] = <<>> /\ fallback[x].ref = 0

C31_Inv ==
    \A n \in NavIds :
        (C31_Empty(navs[n].node) /\ navs[n].pstate # "pending")
        => /\ navs[n].resolved # "nomatch"
           /\ navs[n].pstate = "rejected" => Threw(n)
           /\ (~Vetoed(n) /\ ~Threw(n) /\ ~navs[n].superseded) => Did(n, "commit")

C31_Step ==
    \A n \in NavIds :
        (C31_Empty(navs[n].node) /\ CommitsNow(n))
        => LET x == navs[n].node
           IN /\ curPathname'[x] = <<>>
              /\ navs'[n].tail = navs[n].pathname
              /\ getTailGroup(curParams'[x]) = navs[n].pathname
              /\ ForwardedTo(childRoutes[x], navs[n].pathname, navs[n].passed)
              /\ navs'[n].pstate = "fulfilled"

\* C31: a navigation of a node without descriptors and without fallback
\* never fails for want of a match (it rejects only when a guard throws); it
\* commits with the empty string as local pathname and the whole input
\* pathname as tail capture, and calls goto(pathname, passed params) on every
\* registered child in the committing step.
C31_EmptyTable == [](C31_Inv) /\ [][C31_Step]_vars

\* C31 witness: the root with the empty table committed "/c/b" with the local
\* pathname "" and both children were navigated to "/c/b", which their
\* tables do not match
C31_Witness ==
    \E n \in NavIds :
        /\ navs[n].node = 1 /\ C31_Empty(1) /\ Did(n, "commit")
        /\ navs[n].pathname = PCB /\ curPathname[1] = <<>>
        /\ calls[navs[n].call].pc = "done" /\ calls[navs[n].call].outcome = "fulfilled"
        /\ \A x \in {2, 3} : \E c \in CallIds :
              /\ calls[c].node = x /\ calls[c].by = "tail" /\ calls[c].pathname = PCB
              /\ calls[c].outcome = "rejected"

\* some descriptor of the table of x tests true on pathname
C32_TableMatches(x, pathname) ==
    \E i \in 1..Len(routes[x]) : PatternTest(routes[x][i], pathname)

C32_Step ==
    \A n \in NavIds :
        LET x == navs[n].node
            p == navs[n].pathname
        IN /\ (navs[n].resolved = "pending" /\ navs'[n].resolved # "pending"
               /\ fallback[x].ref # 0)
                 => IF C32_TableMatches(x, p)
                    THEN /\ navs'[n].resolved = "route"
                         /\ RefIndex(routes[x], 0 - navs'[n].route.ref) # 0
                    ELSE /\ navs'[n].resolved = "fallback"
                         /\ navs'[n].route = FallbackCopy(fallback[x])
                         /\ navs'[n].tail # UndefStr
           /\ (CommitsNow(n) /\ navs'[n].resolved = "fallback")
                 => /\ curRoute'[x].ref = FallbackRef
                    /\ ForwardedTo(childRoutes[x], navs'[n].tail, navs[n].passed)

\* C32: at a node with a fallback, a navigation resolves to the fallback if
\* and only if no descriptor of the table matches the pathname; the fallback
\* then stands for the template "/*", has a tail capture, and its commit
\* calls goto(tail, passed params) on every registered child; a pathname that
\* a descriptor matches resolves to a descriptor of the table.
C32_Fallback == [][C32_Step]_vars

\* C32 witness: the root committed the fallback for "/x", which no descriptor
\* matches, after it had committed "/a", and both children were navigated to
\* the tail "x"
C32_Witness ==
    \E n, m \in NavIds :
        /\ navs[n].node = 1 /\ navs[n].resolved = "fallback" /\ Did(n, "commit")
        /\ navs[n].pathname = PX /\ navs[n].tail = <<"x">>
        /\ curRoute[1].ref = FallbackRef
        /\ navs[m].node = 1 /\ navs[m].resolved = "route" /\ Did(m, "commit")
        /\ \A x \in {2, 3} : \E c \in CallIds :
              calls[c].node = x /\ calls[c].by = "tail" /\ calls[c].pathname = <<"x">>

\* C33: when a navigation commits to a descriptor of the table (not the
\* fallback), the current route of the node is, by identity, a descriptor
\* that the table holds.
C33_CurrentIsTableObject ==
    [][\A n \in NavIds :
          (CommitsNow(n) /\ navs'[n].resolved = "route")
          => RefIndex(routes'[navs[n].node], curRoute'[navs[n].node].ref) # 0]_vars

\* C34: a navigation that resolves to a descriptor of the table gets the
\* descriptor's fields (enter, leave, render) as they are in the table at
\* that moment, also after an update has been applied to the descriptor.
C34_UpdateVisible ==
    [][\A n \in NavIds :
          LET x == navs[n].node
              i == RefIndex(routes[x], 0 - navs'[n].route.ref)
          IN (navs[n].resolved = "pending" /\ navs'[n].resolved = "route" /\ i # 0)
             => navs'[n].route = SpreadCopy(routes[x][i])]_vars

\* C35: when a navigation commits to a descriptor whose template has no
\* "*" or "**" segment, whatever the names of its dynamic parameters, the
\* committed local pathname is the whole input pathname and no goto is
\* called on any child.
C35_TailOnlyFromWildcard ==
    [][\A n \in NavIds :
          (/\ CommitsNow(n) /\ navs'[n].resolved = "route"
           /\ WildcardCount(navs'[n].route.path) = 0)
          => /\ curPathname'[navs[n].node] = navs[n].pathname
             /\ Len(calls') = Len(calls)]_vars

\* C36: in every commit with a tail capture the committed local pathname is
\* a prefix of the input pathname, and the local pathname followed by the
\* tail is the input pathname, up to one trailing slash.
C36_LocalPlusTail ==
    [][\A n \in NavIds :
          (CommitsNow(n) /\ navs'[n].tail # UndefStr)
          => LET loc == curPathname'[navs[n].node]
                 p == navs[n].pathname
             IN /\ IsPrefix(loc, p)
                /\ loc \o navs'[n].tail \in {p, Normalize(p)}]_vars

\* C37: when a navigation commits to a descriptor of the table for a
\* pathname, exec of the descriptor's pattern on that pathname succeeds and
\* the committed params are its groups; in particular the committed params
\* of a template with capture slots are not empty.
C37_TestAgreesWithExec ==
    [][\A n \in NavIds :
          (CommitsNow(n) /\ navs'[n].resolved = "route")
          => LET m == PatternExec(navs'[n].route, navs[n].pathname)
             IN /\ m.matched
                /\ curParams'[navs[n].node] = m.params
                /\ compileRoute(navs'[n].route.path).params # <<>>
                      => curParams'[navs[n].node] # NoParams]_vars

\* the children whose leave guard navigation n invoked in its children step
C38_Asked(n) == {navs[n].consulted[i] : i \in 1..Len(navs[n].consulted)}

C38_Step ==
    \A n \in NavIds :
        (CommitsNow(n) /\ navs'[n].tail # UndefStr)
        => \A m \in (Len(navs) + 1)..Len(navs') :
              navs'[m].node \in C38_Asked(n) => "leave" \notin navs'[m].fx

C38_Inv ==
    \A m \in NavIds :
        calls[navs[m].call].by = "tail" => navs[m].results.leave # "false"

\* C38: when a navigation of a parent commits with a tail, the navigation
\* that the forwarding starts on a child does not invoke the leave guard that
\* the parent's children step has already invoked, and the leave guard of a
\* child never vetoes a forwarded navigation, that is, after the parent has
\* committed.
C38_LeaveOnce == [](C38_Inv) /\ [][C38_Step]_vars

-----------------------------------------------------------------------------
(* C39 *)

\* the mutation call m changed the table, or it is an add whose replay found
\* the path that another add had put into the table
C39_Applied(m) ==
    LET x == muts[m].node IN
    \/ \E i \in 1..Len(applied[x]) : applied[x][i] = m
    \/ /\ muts[m].op = "add"
       /\ \E i \in 1..Len(applied[x]) :
             /\ applied[x][i] # m
             /\ muts[applied[x][i]].op = "add"
             /\ muts[applied[x][i]].route.path = muts[m].route.path

\* no call of _gotoInternal is outstanding
C39_NoCall == \A c \in 1..Len(calls) : calls[c].pc = "done"

C39_MarkerEmpty == \A x \in Nodes : pendingNav[x] = 0

C39_Settled ==
    /\ C39_NoCall
    /\ \A m \in 1..Len(muts) : muts[m].deferred => C39_Applied(m)
    /\ C39_MarkerEmpty

\* C39: when the microtask queue is drained and every guard invocation returns
\* or throws, every call of goto and of _gotoRecover settles, also those made
\* from inside a guard of the same node; every deferred table operation is
\* applied; and whenever no call is outstanding, _pendingNavigation is null.
C39_Liveness == <>[]C39_Settled /\ [](C39_NoCall => C39_MarkerEmpty)

\* a goto called from inside a leave guard has settled, a table operation that
\* was deferred is applied, and nothing is outstanding
C39_Witness ==
    /\ C39_Settled
    /\ queue = <<>>
    /\ \E c \in 1..Len(calls) : calls[c].by = "guard"
    /\ \E m \in 1..Len(muts) : muts[m].deferred /\ C39_Applied(m)
====
